---- MODULE Spec2Model ----
(***************************************************************************)
(* A model of the anti-bot aware scraping pipeline of kingyx3/alert:       *)
(*   - ETBWebDriverManager.is_blocked_by_protection (scraper_intl.py)      *)
(*   - InternationalETBScraper.scrape_products and its retry cascade       *)
(*   - ETBProductExtractor / ProductExtractor discovery and extraction     *)
(*   - normalize_url / ETBProductExtractor._normalize_url                  *)
(*   - PageValidator and AvailabilityChecker of scraper_components         *)
(* Python strings are TLA+ strings; Len, \o and SubSeq act on them.        *)
(***************************************************************************)
EXTENDS Integers, Sequences, FiniteSets, TLC

VARIABLES
    det_source,     \* page_source handed to is_blocked_by_protection
    det_title,      \* page_title handed to is_blocked_by_protection
    det_result,     \* the (is_blocked, vendor) tuple returned, or NotRun
    nz_impl,        \* which normalizer runs: "helpers" (normalize_url) or "etb" (_normalize_url)
    nz_base,        \* base_domain of normalize_url / driver.current_url of _normalize_url
    nz_ok,          \* whether reading driver.current_url succeeds (etb)
    nz_out,         \* the URLs normalized so far, each with the value returned
    scraper,        \* which scraper runs: "intl" (InternationalETBScraper) or "browser" (BrowserScraper)
    pc,             \* position of the run inside scrape_products
    driver,         \* webdriver_manager.driver: "none" (None) or "live"
    page,           \* the page the browser currently shows (a key of PageOf)
    health,         \* (page_healthy, health_message) of the last _check_page_health
    strategy_idx,   \* position of _handle_protection_retry in retry_strategies
    invoked,        \* the strategy functions called so far, in call order
    reloads,        \* refreshes done inside _retry_progressive_delay
    cascades,       \* calls of _handle_protection_retry in this run
    retry_success,  \* "True"/"False" returned by _handle_protection_retry, or "not run"
    tier_log,       \* discovery tier functions called so far, each with its returned list
    debug_ran,      \* whether _debug_page_structure ran
    product_elements, \* value returned by wait_for_products_to_load, or NotRun
    elem_idx,       \* elements handled so far by the extraction loop
    products,       \* the batch built by the extraction loop
    result,         \* value returned by scrape_products (meaningful once pc is "finally" or "done")
    screenshots,    \* page_type of every take_screenshot call, in call order
    avail_idx,      \* products handled so far by _check_products_availability
    last_check,     \* the latest check_product_availability call: what it saw and returned
    available_products, \* the list _check_products_availability builds
    listing_ready,  \* "True"/"False" returned by wait_for_page_ready on the listing page, or "not run"
    check_log,      \* the URLs check_product_availability was called with, in call order
    session,        \* the browser session: "none", "open", "closed", or "quit failed" (quit() raised)
    quits,          \* calls of driver.quit() in this run
    val_url,        \* driver.current_url seen by validate_page_loaded
    val_page,       \* the page validate_page_loaded reads (a key of Shown)
    val_recaptcha,  \* what the reCAPTCHA handler reports during the validation
    val_raises,     \* whether a driver read raises during the validation
    val_result,     \* "True"/"False" returned by validate_page_loaded, or "not run"
    hp_source,      \* driver.page_source read by _check_page_health
    hp_title,       \* driver.title read by _check_page_health
    hp_read_ok,     \* whether the driver reads of _check_page_health succeed
    hp_result,      \* the (healthy, message) pair returned, <<>> before the call
    global_driver,  \* _global_driver: the cached driver's number, 0 for None
    alive,          \* the drivers whose browser session still answers
    made,           \* how many drivers setup_chrome_driver has created
    quit_called,    \* the drivers whose quit() has been called
    last_call,      \* the last call on the cache and what it returned
    pr_ready,       \* whether document.readyState became "complete" within the timeout
    pr_sizes,       \* len(driver.page_source) at each of the polls that may happen
    pr_page,        \* the page shown when the validation runs
    pr_out,         \* polls made, stability verdict and result of wait_for_page_ready
    ex_extractor,   \* which field extractor is run: "etb" or "pe"
    ex_elem,        \* the candidate element it is run on
    ex_clock,       \* the clock, in ticks of datetime.now()
    ex_out,         \* the calls made so far: when, and what was returned
    fj_retries,     \* the retries argument of fetch_json
    fj_attempt,     \* its local `attempt`
    fj_responses,   \* the responses received so far, one for each request
    fj_waits,       \* the seconds slept after each failed attempt
    fj_result,      \* how the call ended: "running", "tuple", "None" or "RuntimeError"
    fj_returned,    \* the value returned, <<>> when there is none
    env_filters,    \* os.environ: whether PRODUCT_NAME_FILTERS is set, and its value
    kw_cache,       \* _FILTER_KEYWORDS_CACHE: <<>> for None, else <<string, keywords>>
    kw_last,        \* the last call of get_filter_keywords: the value it read, what it returned
    fl_last,        \* the last call of filter_available_products: its argument and result
    gc_li,          \* list items on the page _find_generic_containers searches
    gc_div,         \* triple nested divs on that page
    gc_pattern,     \* kinds of the elements of that page, repeated in order
    gc_sampled,     \* positions of the selectors whose matches were sampled
    gc_result,      \* elements _find_generic_containers returned
    gc_done,        \* whether _find_generic_containers has run
    rc_tag,         \* tag of the element handed to _click_recaptcha_checkbox
    rc_pc,          \* the statement _click_recaptcha_checkbox is at
    rc_frame,       \* the browsing context the driver is switched to
    rc_alive,       \* whether the browser session still answers
    rc_calls,       \* driver calls _click_recaptcha_checkbox has made
    rc_result,      \* what _click_recaptcha_checkbox returned
    mn_pc,          \* the statement scraper_old.main is at
    mn_session,     \* the browser session of the BrowserScraper of main
    mn_checker,     \* whether browser_scraper.availability_checker is set
    mn_available,   \* available_products returned to main
    mn_idx,         \* position of the purchase loop of main
    mn_ops,         \* navigations of the purchase attempts, each with the session state
    mn_purchases,   \* purchase_results of main
    ap_products,    \* available_products handed to automate_purchases
    ap_pc,          \* the statement automate_purchases is at
    ap_idx,         \* position of the next product of its loop
    ap_results      \* the results dictionary of automate_purchases

detVars == <<det_source, det_title, det_result>>
nzVars == <<nz_impl, nz_base, nz_ok, nz_out>>
retryVars == <<health, strategy_idx, invoked, reloads, cascades, retry_success>>
discoverVars == <<tier_log, debug_ran, product_elements>>
extractVars == <<elem_idx, products>>
runVars == <<scraper, pc, driver, page, result>>
availVars ==
    <<screenshots, avail_idx, last_check, available_products, listing_ready, check_log, session, quits>>
scrapeVars == <<runVars, retryVars, discoverVars, extractVars, availVars>>
valVars == <<val_url, val_page, val_recaptcha, val_raises, val_result>>
hpVars == <<hp_source, hp_title, hp_read_ok, hp_result>>
cacheVars == <<global_driver, alive, made, quit_called, last_call>>
readyVars == <<pr_ready, pr_sizes, pr_page, pr_out>>
exVars == <<ex_extractor, ex_elem, ex_clock, ex_out>>
fetchVars == <<fj_retries, fj_attempt, fj_responses, fj_waits, fj_result, fj_returned>>
filterVars == <<env_filters, kw_cache, kw_last, fl_last>>
genericVars == <<gc_li, gc_div, gc_pattern, gc_sampled, gc_result, gc_done>>
clickVars == <<rc_tag, rc_pc, rc_frame, rc_alive, rc_calls, rc_result>>
mainVars == <<mn_pc, mn_session, mn_checker, mn_available, mn_idx, mn_ops, mn_purchases>>
purchVars == <<ap_products, ap_pc, ap_idx, ap_results>>
extraVars == <<valVars, hpVars, cacheVars, readyVars, exVars, fetchVars, filterVars, genericVars, clickVars, mainVars, purchVars>>
idleVars == <<detVars, nzVars, extraVars>>

NotRun == <<"not run">>

\* last_check before any product page was checked
NoCheck ==
    [url |-> "", page |-> "blank", qty |-> "none", validated |-> FALSE, returned |-> <<>>,
     calls |-> <<>>]

(***************************************************************************)
(* Python string primitives.                                               *)
(***************************************************************************)
UpperLetters == "ABCDEFGHIJKLMNOPQRSTUVWXYZ"
LowerLetters == "abcdefghijklmnopqrstuvwxyz"

CharAt(s, i) == SubSeq(s, i, i)

\* str.lower() on one character
LowerChar(c) ==
    IF \E i \in 1..Len(UpperLetters) : CharAt(UpperLetters, i) = c
    THEN CharAt(LowerLetters, CHOOSE i \in 1..Len(UpperLetters) : CharAt(UpperLetters, i) = c)
    ELSE c

\* str.upper() on one character
UpperChar(c) ==
    IF \E i \in 1..Len(LowerLetters) : CharAt(LowerLetters, i) = c
    THEN CharAt(UpperLetters, CHOOSE i \in 1..Len(LowerLetters) : CharAt(LowerLetters, i) = c)
    ELSE c

RECURSIVE lower(_)
lower(s) ==
    IF Len(s) = 0 THEN ""
    ELSE IF Len(s) = 1 THEN LowerChar(s)
    ELSE lower(SubSeq(s, 1, Len(s) \div 2)) \o lower(SubSeq(s, Len(s) \div 2 + 1, Len(s)))

RECURSIVE upper(_)
upper(s) ==
    IF Len(s) = 0 THEN ""
    ELSE IF Len(s) = 1 THEN UpperChar(s)
    ELSE upper(SubSeq(s, 1, Len(s) \div 2)) \o upper(SubSeq(s, Len(s) \div 2 + 1, Len(s)))

\* Python `p in s` for strings
Contains(s, p) ==
    \/ Len(p) = 0
    \/ \E i \in 1..(Len(s) - Len(p) + 1) : SubSeq(s, i, i + Len(p) - 1) = p

\* Python s.startswith(p)
StartsWith(s, p) == Len(s) >= Len(p) /\ SubSeq(s, 1, Len(p)) = p

\* Python any(x in s for x in table), table a list of literals
AnyIn(table, s) == \E k \in 1..Len(table) : Contains(s, table[k])

Range(f) == {f[k] : k \in DOMAIN f}

(***************************************************************************)
(* The protection signature table of is_blocked_by_protection.            *)
(***************************************************************************)
incapsula_indicators ==
    << "incapsula incident id", "_incap_sys_visid_", "incapsula",
       "visid_incap_", "__incap" >>

cloudflare_indicators ==
    << "cloudflare ray id", "checking your browser", "please enable cookies",
       "ddos protection by cloudflare", "attention required! | cloudflare",
       "cf-ray:", "__cf_bm", "cf_clearance", "cloudflare", "just a moment" >>

datadome_indicators ==
    << "datadome", "dd_captcha", "_dd_s", "geo.captcha-delivery.com" >>

perimeterx_indicators ==
    << "_px", "perimeterx", "px-captcha", "_pxhd" >>

bot_indicators ==
    << "access denied", "blocked by security", "suspicious activity",
       "rate limit exceeded", "temporarily unavailable", "security check",
       "human verification", "robot or human", "verify you are human",
       "captcha", "too many requests" >>

\* The detector with the generic check moved ahead of the vendor checks.
is_blocked_by_protection_generic_first(page_source, page_title) ==
    LET page_source_lower == lower(page_source)
        page_title_lower  == IF page_title = "" THEN "" ELSE lower(page_title)
    IN  IF \E k \in 1..Len(bot_indicators) :
                \/ Contains(page_source_lower, bot_indicators[k])
                \/ Contains(page_title_lower, bot_indicators[k])
        THEN <<TRUE, "Generic Anti-bot">>
        ELSE IF AnyIn(incapsula_indicators, page_source_lower)
        THEN <<TRUE, "Incapsula">>
        ELSE IF \E k \in 1..Len(cloudflare_indicators) :
                \/ Contains(page_source_lower, cloudflare_indicators[k])
                \/ Contains(page_title_lower, cloudflare_indicators[k])
        THEN <<TRUE, "Cloudflare">>
        ELSE IF AnyIn(datadome_indicators, page_source_lower)
        THEN <<TRUE, "DataDome">>
        ELSE IF AnyIn(perimeterx_indicators, page_source_lower)
        THEN <<TRUE, "PerimeterX">>
        ELSE <<FALSE, "">>

\* The detector with the Cloudflare and Incapsula checks swapped.
is_blocked_by_protection_cloudflare_first(page_source, page_title) ==
    LET page_source_lower == lower(page_source)
        page_title_lower  == IF page_title = "" THEN "" ELSE lower(page_title)
    IN  IF \E k \in 1..Len(cloudflare_indicators) :
                \/ Contains(page_source_lower, cloudflare_indicators[k])
                \/ Contains(page_title_lower, cloudflare_indicators[k])
        THEN <<TRUE, "Cloudflare">>
        ELSE IF AnyIn(incapsula_indicators, page_source_lower)
        THEN <<TRUE, "Incapsula">>
        ELSE IF AnyIn(datadome_indicators, page_source_lower)
        THEN <<TRUE, "DataDome">>
        ELSE IF AnyIn(perimeterx_indicators, page_source_lower)
        THEN <<TRUE, "PerimeterX">>
        ELSE IF \E k \in 1..Len(bot_indicators) :
                \/ Contains(page_source_lower, bot_indicators[k])
                \/ Contains(page_title_lower, bot_indicators[k])
        THEN <<TRUE, "Generic Anti-bot">>
        ELSE <<FALSE, "">>

\* ETBWebDriverManager.is_blocked_by_protection: five checks in sequence, the
\* first that matches returns.  Incapsula, DataDome and PerimeterX search the
\* lower-cased source only; Cloudflare and the generic list also the title.
is_blocked_by_protection(page_source, page_title) ==
    LET page_source_lower == lower(page_source)
        page_title_lower  == IF page_title = "" THEN "" ELSE lower(page_title)
    IN  IF AnyIn(incapsula_indicators, page_source_lower)
        THEN <<TRUE, "Incapsula">>
        ELSE IF \E k \in 1..Len(cloudflare_indicators) :
                \/ Contains(page_source_lower, cloudflare_indicators[k])
                \/ Contains(page_title_lower, cloudflare_indicators[k])
        THEN <<TRUE, "Cloudflare">>
        ELSE IF AnyIn(datadome_indicators, page_source_lower)
        THEN <<TRUE, "DataDome">>
        ELSE IF AnyIn(perimeterx_indicators, page_source_lower)
        THEN <<TRUE, "PerimeterX">>
        ELSE IF \E k \in 1..Len(bot_indicators) :
                \/ Contains(page_source_lower, bot_indicators[k])
                \/ Contains(page_title_lower, bot_indicators[k])
        THEN <<TRUE, "Generic Anti-bot">>
        ELSE <<FALSE, "">>

(***************************************************************************)
(* SpecDetect: the detector applied to bounded inputs.                     *)
(***************************************************************************)
Vendors == <<"Incapsula", "Cloudflare", "DataDome", "PerimeterX", "Generic Anti-bot">>

SignaturesOf(v) ==
    CASE v = "Incapsula"        -> incapsula_indicators
      [] v = "Cloudflare"       -> cloudflare_indicators
      [] v = "DataDome"         -> datadome_indicators
      [] v = "PerimeterX"       -> perimeterx_indicators
      [] v = "Generic Anti-bot" -> bot_indicators

AllSignatures == UNION {Range(SignaturesOf(Vendors[i])) : i \in 1..Len(Vendors)}

\* One literal per vendor, used to build pages that carry two vendors' marks.
Representative(v) == SignaturesOf(v)[1]

NormalPage == "<html><body>Normal page</body></html>"

DetectSources ==
    {"", NormalPage, "<html><body>incapsula incident id 12345</body></html>"}
    \cup AllSignatures
    \cup {upper(s) : s \in AllSignatures}
    \cup {Representative(Vendors[i]) \o " " \o Representative(Vendors[j]) :
            i \in 1..Len(Vendors), j \in 1..Len(Vendors)}

DetectTitles == {"", "Shop"} \cup {upper(s) : s \in AllSignatures}

DetIdle == det_source = "" /\ det_title = "" /\ det_result = NotRun

DetInit ==
    /\ det_source \in DetectSources
    /\ det_title \in DetectTitles
    /\ det_result = NotRun

Detect ==
    /\ det_result = NotRun
    /\ det_result' = is_blocked_by_protection(det_source, det_title)
    /\ UNCHANGED <<det_source, det_title>>

(***************************************************************************)
(* URL normalization: helpers.normalize_url and                            *)
(* ETBProductExtractor._normalize_url.                                     *)
(***************************************************************************)
\* Python s.find(p) + 1: the first position of p in s, 0 when absent
Find(s, p) ==
    IF Contains(s, p) /\ Len(p) > 0
    THEN CHOOSE i \in 1..(Len(s) - Len(p) + 1) :
            /\ SubSeq(s, i, i + Len(p) - 1) = p
            /\ \A j \in 1..(i - 1) : SubSeq(s, j, j + Len(p) - 1) # p
    ELSE 0

\* the text of s before the first character that is one of the characters of stops
UpTo(s, stops) ==
    LET hits == {i \in 1..Len(s) : Contains(stops, CharAt(s, i))}
    IN  IF hits = {} THEN s
        ELSE SubSeq(s, 1, (CHOOSE i \in hits : \A j \in hits : i <= j) - 1)

\* urllib.parse.urlparse(u).scheme, for scheme:rest URLs
UrlScheme(u) == IF Find(u, ":") > 1 THEN lower(SubSeq(u, 1, Find(u, ":") - 1)) ELSE ""

UrlAfterScheme(u) == IF Find(u, ":") > 1 THEN SubSeq(u, Find(u, ":") + 1, Len(u)) ELSE u

\* urllib.parse.urlparse(u).netloc
UrlNetloc(u) ==
    IF StartsWith(UrlAfterScheme(u), "//")
    THEN UpTo(SubSeq(UrlAfterScheme(u), 3, Len(UrlAfterScheme(u))), "/?#")
    ELSE ""

\* urllib.parse.urlparse(u).path
UrlPath(u) ==
    LET rest == UrlAfterScheme(u)
        tail == IF StartsWith(rest, "//")
                THEN SubSeq(rest, 3 + Len(UrlNetloc(u)), Len(rest))
                ELSE rest
    IN  UpTo(tail, "?#")

\* the path up to and including its last "/"
DirOf(path) ==
    LET hits == {i \in 1..Len(path) : CharAt(path, i) = "/"}
    IN  IF hits = {} THEN "/"
        ELSE SubSeq(path, 1, CHOOSE i \in hits : \A j \in hits : j <= i)

\* urllib.parse.urljoin(base, url) for a relative reference made of plain path
\* segments (no scheme, no leading "/", no "." segments, no query)
urljoin(base, url) ==
    IF UrlNetloc(base) = "" THEN url
    ELSE UrlScheme(base) \o "://" \o UrlNetloc(base) \o DirOf(UrlPath(base)) \o url

\* normalize_url with the protocol-relative test placed after the root-relative one
normalize_url_root_first(url, base_domain) ==
    IF url = "" THEN ""
    ELSE IF StartsWith(url, "http") THEN url
    ELSE IF StartsWith(url, "/") THEN base_domain \o url
    ELSE IF StartsWith(url, "//") THEN "https:" \o url
    ELSE url

\* scraper_components.utils.helpers.normalize_url
normalize_url(url, base_domain) ==
    IF url = "" THEN ""
    ELSE IF StartsWith(url, "http") THEN url
    ELSE IF StartsWith(url, "//") THEN "https:" \o url
    ELSE IF StartsWith(url, "/") THEN base_domain \o url
    ELSE url

\* ETBProductExtractor._normalize_url; current_ok = FALSE is the read of
\* driver.current_url raising, which the bare except turns into `return url`
etb_normalize_url(url, current_url, current_ok) ==
    IF StartsWith(url, "http") \/ StartsWith(url, "file://") THEN url
    ELSE IF StartsWith(url, "//") THEN "https:" \o url
    ELSE IF ~current_ok THEN url
    ELSE IF StartsWith(url, "/")
         THEN UrlScheme(current_url) \o "://" \o UrlNetloc(current_url) \o url
         ELSE urljoin(current_url, url)

NzOrigins == {"https://x", "https://www.lazada.sg", "http://shop.example.com"}
NzPagePaths == {"", "/list", "/shop/etb?page=2"}

\* the origin the run normalizes against
NzOrigin ==
    IF nz_impl = "helpers" THEN nz_base
    ELSE UrlScheme(nz_base) \o "://" \o UrlNetloc(nz_base)

NzUrls ==
    {"", "//a/b", "/a/b", "a/b", "https://x/a/b", "//cdn.example.com/i.png",
     "file:///tmp/page.html", "p/1"}
    \cup {o \o "/a/b" : o \in NzOrigins}

NzNone == [u \in {} |-> ""]

NzIdle == nz_impl = "helpers" /\ nz_base = "" /\ nz_ok = TRUE /\ nz_out = NzNone

NzInit ==
    /\ nz_impl \in {"helpers", "etb"}
    /\ nz_base \in IF nz_impl = "helpers" THEN NzOrigins
                   ELSE {o \o q : o \in NzOrigins, q \in NzPagePaths}
    /\ nz_ok \in IF nz_impl = "helpers" THEN {TRUE} ELSE BOOLEAN
    /\ nz_out = NzNone

\* one call of the normalizer; _normalize_url is only called with a href that
\* is non-empty (scraper_intl.py:1372, 1382, 1390)
NormalizeUrl(u) ==
    /\ u \notin DOMAIN nz_out
    /\ nz_impl = "etb" => u # ""
    /\ nz_out' = [v \in DOMAIN nz_out \cup {u} |->
                    IF v # u THEN nz_out[v]
                    ELSE IF nz_impl = "helpers" THEN normalize_url(u, nz_base)
                    ELSE etb_normalize_url(u, nz_base, nz_ok)]
    /\ UNCHANGED <<nz_impl, nz_base, nz_ok>>

\* the three forms of the claim, for the run's origin
NzForms == {"//a/b", "/a/b", NzOrigin \o "/a/b"}

\* C8 as stated: under one origin the protocol-relative form //a/b, the
\* root-relative form /a/b and the absolute form <origin>/a/b normalize to
\* one and the same absolute URL.
C8_AllFormsSame ==
    (nz_ok /\ NzForms \subseteq DOMAIN nz_out) =>
        \A u, v \in NzForms : nz_out[u] = nz_out[v]

\* C8, amended: the root-relative form /a/b and the absolute form
\* <origin>/a/b normalize to the same URL <origin>/a/b; the protocol-relative
\* form //a/b normalizes to https://a/b, whatever the origin.
C8_RootAndAbsoluteSame ==
    (nz_ok /\ NzForms \subseteq DOMAIN nz_out) =>
        /\ nz_out["/a/b"] = NzOrigin \o "/a/b"
        /\ nz_out[NzOrigin \o "/a/b"] = NzOrigin \o "/a/b"
        /\ nz_out["//a/b"] = "https://a/b"

\* all three forms were normalized by _normalize_url on a page below the origin
C8_Witness ==
    /\ nz_impl = "etb"
    /\ nz_ok
    /\ nz_base = "https://www.lazada.sg/shop/etb?page=2"
    /\ NzForms \subseteq DOMAIN nz_out


(***************************************************************************)
(* Pages the browser can show on the listing URL.                          *)
(***************************************************************************)
RECURSIVE Repeat(_, _)
Repeat(s, n) == IF n = 0 THEN "" ELSE s \o Repeat(s, n - 1)

Filler == Repeat("<div class='product'>Elite Trainer Box</div>", 14)

PageIds == {"incapsula", "cloudflare", "small", "untitled", "healthy"}

\* about:blank, shown before the first navigation
BlankPage == [source |-> "<html><head></head><body></body></html>", title |-> ""]

PageOf(id) ==
    CASE id = "blank" -> BlankPage
      [] id = "incapsula" ->
            [source |-> "<html><body>Request unsuccessful. Incapsula incident ID: 12345-67</body></html>",
             title  |-> ""]
      [] id = "cloudflare" ->
            [source |-> "<html><body><div>One more step</div></body></html>",
             title  |-> "Just a moment..."]
      [] id = "small" ->
            [source |-> "<html><body><div>loading</div></body></html>",
             title  |-> "ETB"]
      [] id = "untitled" ->
            [source |-> "<html><body>" \o Filler \o "</body></html>",
             title  |-> "  "]
      [] id = "healthy" ->
            [source |-> "<html><body>" \o Filler \o "</body></html>",
             title  |-> "Elite Trainer Boxes"]

\* is_blocked_by_protection(driver.page_source, driver.title) on each page
PageProtection == [id \in PageIds \cup {"blank"} |-> is_blocked_by_protection(PageOf(id).source, PageOf(id).title)]

PageBlocked(id) == PageProtection[id][1]

\* Python s.strip() for blanks
RECURSIVE Strip(_)
Strip(s) ==
    IF Len(s) = 0 THEN ""
    ELSE IF CharAt(s, 1) = " " THEN Strip(SubSeq(s, 2, Len(s)))
    ELSE IF CharAt(s, Len(s)) = " " THEN Strip(SubSeq(s, 1, Len(s) - 1))
    ELSE s

MinHealthyLength == 500

\* the remaining checks of _check_page_health, `protection` being the
\* detector's answer; read_ok = FALSE is a driver read raising
health_checks(page_source, page_title, protection, read_ok) ==
        IF ~read_ok THEN <<FALSE, "Error checking page health">>
        ELSE IF protection[1]
        THEN <<FALSE, "Blocked by " \o protection[2] \o " protection">>
        ELSE IF Len(page_source) < MinHealthyLength
        THEN <<FALSE, "Page content too small (" \o ToString(Len(page_source))
                       \o " chars) - possible loading issue">>
        ELSE IF page_title = "" \/ Len(Strip(page_title)) = 0
        THEN <<FALSE, "Empty page title - possible loading issue">>
        ELSE IF \E tag \in {"<body", "<div"} : ~Contains(lower(page_source), tag)
        THEN <<FALSE, "Missing essential HTML tags">>
        ELSE <<TRUE, "Page appears healthy">>

\* a health check that looks at the size, title and tags before the detector
health_checks_detector_last(page_source, page_title, protection, read_ok) ==
    LET others == health_checks(page_source, page_title, <<FALSE, "">>, read_ok)
    IN  IF ~read_ok \/ ~others[1] THEN others
        ELSE health_checks(page_source, page_title, protection, read_ok)

\* InternationalETBScraper._check_page_health on what the driver shows
check_page_health_of(page_source, page_title, protection, read_ok) ==
    health_checks(page_source, page_title, protection, read_ok)

\* _check_page_health on page `id`
check_page_health(id, read_ok) ==
    check_page_health_of(PageOf(id).source, PageOf(id).title, PageProtection[id], read_ok)

PageHealth == [id \in PageIds \cup {"blank"}, ok \in BOOLEAN |-> check_page_health(id, ok)]

\* health_message.split("Blocked by ")[1].split(" protection")[0]
ProtectionTypeOf(health_message) ==
    LET after == SubSeq(health_message, Find(health_message, "Blocked by ") + Len("Blocked by "),
                        Len(health_message))
    IN  IF Find(after, " protection") = 0 THEN after
        ELSE SubSeq(after, 1, Find(after, " protection") - 1)

(***************************************************************************)
(* Candidate elements and the two field extractors.  An element is known   *)
(* by what the extractors' selectors find in it; a missing attribute       *)
(* (None) is written "", which every test in the code treats the same way. *)
(***************************************************************************)
\* the candidate elements of a listing page, in document order
DocumentOrder == <<"card", "sleeve", "bare", "untitled", "blank", "textonly", "stale">>

Elements == Range(DocumentOrder)

NoDom ==
    [stale |-> FALSE, titles |-> <<>>, text |-> "", prices |-> <<>>, imgs |-> <<>>,
     sel_links |-> <<>>, links |-> <<>>, href |-> ""]

\* titles: what the title selectors find, in selector order (title attribute, text);
\* prices: text of what the price selectors find; imgs: (src, data-src) of what
\* the image selectors find; sel_links: href of what ETB_LINK_SELECTORS find;
\* links: (text, href) of the <a> descendants; href: the element's own href;
\* stale: the element left the DOM, every access raises
ElementDom(e) ==
    CASE e = "card" ->
            [NoDom EXCEPT !.titles = << [title |-> "Elite Trainer Box", text |-> "Elite Trainer Box"] >>,
                          !.text = "Elite Trainer Box $49.90 Add to cart",
                          !.prices = << "$49.90" >>,
                          !.imgs = << [src |-> "//cdn.example.com/etb.png", data_src |-> ""] >>,
                          !.sel_links = << "/product/etb-1" >>,
                          !.links = << [text |-> "Elite Trainer Box", href |-> "/product/etb-1"] >>]
      [] e = "sleeve" ->
            [NoDom EXCEPT !.titles = << [title |-> "Card Sleeves", text |-> "Card Sleeves"] >>,
                          !.text = "Card Sleeves $9.90",
                          !.prices = << "$9.90" >>,
                          !.sel_links = << "https://www.lazada.sg/products/sleeves" >>,
                          !.links = << [text |-> "Card Sleeves",
                                        href |-> "https://www.lazada.sg/products/sleeves"] >>]
      [] e = "bare" ->
            [NoDom EXCEPT !.titles = << [title |-> "", text |-> "  Booster Bundle "] >>,
                          !.text = "  Booster Bundle "]
      [] e = "untitled" ->
            [NoDom EXCEPT !.text = "   ",
                          !.prices = << "S$1,299.00" >>,
                          !.imgs = << [src |-> "", data_src |-> "/img/tin.png"] >>,
                          !.links = << [text |-> " ", href |-> "p/7"] >>]
      [] e = "blank" ->
            [NoDom EXCEPT !.titles = << [title |-> "  ", text |-> ""] >>,
                          !.links = << [text |-> "", href |-> "#"], [text |-> "", href |-> "/p/2"] >>]
      [] e = "textonly" ->
            [NoDom EXCEPT !.text = Repeat("Mystery Tin ", 17),
                          !.prices = << "sold out", "..." >>,
                          !.links = << [text |-> " Mystery Tin", href |-> "javascript:void(0)"] >>,
                          !.href = "https://shop.example.com/tin"]
      [] e = "stale" ->
            [NoDom EXCEPT !.stale = TRUE]

\* first element of a sequence that satisfies Test, as a one-element sequence
FirstWhere(seq, Test(_)) ==
    LET hits == {i \in 1..Len(seq) : Test(seq[i])}
    IN  IF hits = {} THEN <<>>
        ELSE << seq[CHOOSE i \in hits : \A j \in hits : i <= j] >>

\* the longest title text the element-text fallback of _extract_title accepts
MaxOwnTextLength == 200

\* ETBProductExtractor._extract_title
etb_extract_title(e) ==
    LET d == ElementDom(e)
        Candidate(t) == IF t.title # "" THEN t.title ELSE Strip(t.text)
        Usable(t) == Candidate(t) # "" /\ Len(Strip(Candidate(t))) > 0
        hit == FirstWhere(d.titles, Usable)
        element_text == Strip(d.text)
    IN  IF d.stale THEN ""
        ELSE IF hit # <<>> THEN Strip(Candidate(hit[1]))
        ELSE IF element_text # "" /\ Len(element_text) < MaxOwnTextLength THEN element_text
        ELSE IF d.links # <<>> /\ Strip(d.links[1].text) # "" THEN Strip(d.links[1].text)
        ELSE ""

\* s.replace(',', '')
RECURSIVE RemoveCommas(_)
RemoveCommas(s) ==
    IF Len(s) = 0 THEN ""
    ELSE (IF CharAt(s, 1) = "," THEN "" ELSE CharAt(s, 1)) \o RemoveCommas(SubSeq(s, 2, Len(s)))

NumberChars == "0123456789.,"

\* re.findall(r'[\d.,]+', s)[0], "" when nothing matches
FirstNumberToken(s) ==
    LET starts == {i \in 1..Len(s) : Contains(NumberChars, CharAt(s, i))}
    IN  IF starts = {} THEN ""
        ELSE LET b == CHOOSE i \in starts : \A j \in starts : i <= j
                 stops == {i \in b..Len(s) : ~Contains(NumberChars, CharAt(s, i))}
                 e == IF stops = {} THEN Len(s)
                      ELSE (CHOOSE i \in stops : \A j \in stops : i <= j) - 1
             IN  SubSeq(s, b, e)

\* float(tok) does not raise ValueError: digits with at most one point
FloatParses(tok) ==
    /\ \E i \in 1..Len(tok) : Contains("0123456789", CharAt(tok, i))
    /\ \A i \in 1..Len(tok) : CharAt(tok, i) # ","
    /\ Cardinality({i \in 1..Len(tok) : CharAt(tok, i) = "."}) <= 1

\* ETBProductExtractor._extract_price; the float is written as the token it is
\* parsed from, None as "None"
etb_extract_price(e) ==
    LET d == ElementDom(e)
        Token(price_text) == FirstNumberToken(RemoveCommas(price_text))
        Priced(text) == Strip(text) # "" /\ Token(Strip(text)) # "" /\ FloatParses(Token(Strip(text)))
        hit == FirstWhere(d.prices, Priced)
    IN  IF d.stale \/ hit = <<>> THEN "None" ELSE Token(Strip(hit[1]))

\* the page the international run extracts from (driver.current_url)
BaseUrl == "https://shop.example.com/etb?page=1"

\* ETBProductExtractor._extract_image_url
etb_extract_image_url(e) ==
    LET d == ElementDom(e)
        Url(img) == IF img.src # "" THEN img.src ELSE img.data_src
        Accepted(img) ==
            Url(img) # "" /\ (StartsWith(Url(img), "/") \/ StartsWith(Url(img), "http"))
        hit == FirstWhere(d.imgs, Accepted)
    IN  IF d.stale \/ hit = <<>> THEN ""
        ELSE IF StartsWith(Url(hit[1]), "//") THEN "https:" \o Url(hit[1])
        ELSE IF StartsWith(Url(hit[1]), "/")
        THEN UrlScheme(BaseUrl) \o "://" \o UrlNetloc(BaseUrl) \o Url(hit[1])
        ELSE Url(hit[1])

\* ETBProductExtractor._extract_product_url
etb_extract_product_url(e) ==
    LET d == ElementDom(e)
        Selected(href) == href # "" /\ href # "#"
        AnyLink(a) == a.href # "" /\ a.href # "#" /\ ~StartsWith(a.href, "javascript:")
        by_selector == FirstWhere(d.sel_links, Selected)
        by_tag == FirstWhere(d.links, AnyLink)
    IN  IF d.stale THEN ""
        ELSE IF by_selector # <<>> THEN etb_normalize_url(by_selector[1], BaseUrl, TRUE)
        ELSE IF by_tag # <<>> THEN etb_normalize_url(by_tag[1].href, BaseUrl, TRUE)
        ELSE IF Selected(d.href) THEN etb_normalize_url(d.href, BaseUrl, TRUE)
        ELSE ""

\* the dict extract_product_info builds before it looks at the name
etb_product(e) ==
    [name |-> etb_extract_title(e), price |-> etb_extract_price(e),
     image |-> etb_extract_image_url(e), url |-> etb_extract_product_url(e),
     inStock |-> TRUE, source |-> "ETB International"]

\* extract_product_info returning the dict whatever its name
extract_product_info_any_name(e) == << etb_product(e) >>

\* ETBProductExtractor.extract_product_info: <<dict>>, or <<>> for None
extract_product_info(e) ==
    IF etb_product(e).name # "" THEN << etb_product(e) >> ELSE <<>>

\* ProductExtractor._extract_title
pe_extract_title(e) ==
    LET d == ElementDom(e)
        Candidate(t) == IF t.title # "" THEN t.title ELSE Strip(t.text)
        Usable(t) == Candidate(t) # ""
        hit == FirstWhere(d.titles, Usable)
    IN  IF hit # <<>> THEN Candidate(hit[1]) ELSE ""

\* ProductExtractor._extract_image_url
pe_extract_image_url(e) ==
    LET d == ElementDom(e)
    IN  IF d.imgs = <<>> THEN ""
        ELSE IF d.imgs[1].src # "" THEN d.imgs[1].src ELSE d.imgs[1].data_src

\* ProductExtractor._extract_product_url
pe_extract_product_url(e) ==
    LET d == ElementDom(e)
    IN  IF d.links = <<>> THEN "" ELSE d.links[1].href

\* ProductExtractor.extract_product_info_from_element: <<Product>>, or <<>> for
\* None; a stale element raises in _extract_title and the except returns None
extract_product_info_from_element(e) ==
    IF ElementDom(e).stale THEN <<>>
    ELSE IF pe_extract_title(e) # ""
    THEN << [title |-> pe_extract_title(e), image |-> pe_extract_image_url(e),
             url |-> pe_extract_product_url(e), price |-> "None",
             availability_status |-> "Unknown", is_available |-> FALSE] >>
    ELSE <<>>

\* what each extractor returns for each element
EtbExtracted == [e \in Elements |-> extract_product_info(e)]

PeExtracted == [e \in Elements |-> extract_product_info_from_element(e)]

(***************************************************************************)
(* InternationalETBScraper.scrape_products up to product discovery.        *)
(***************************************************************************)
\* the strategy list with the two reload strategies moved to the front
retry_strategies_reload_first ==
    << "retry_wait_and_reload", "retry_random_delay", "retry_progressive_delay",
       "retry_clear_cookies_enhanced", "retry_human_behavior" >>

\* the list _handle_protection_retry iterates over
retry_strategies ==
    << "retry_progressive_delay", "retry_clear_cookies_enhanced", "retry_human_behavior",
       "retry_wait_and_reload", "retry_random_delay" >>

\* scrape_products going on to discovery whatever the cascade returned
AfterCascade_ignore_failure(success) == "recheck"

\* scrape_products after _handle_protection_retry: `if not retry_success: return []`
AfterCascade(success) == IF success THEN "recheck" ELSE "return_empty"

ScrapeIdle ==
    /\ scraper = "idle" /\ pc = "idle" /\ driver = "none" /\ page = "blank"
    /\ health = NotRun /\ strategy_idx = 0 /\ invoked = <<>> /\ reloads = 0
    /\ cascades = 0 /\ retry_success = "not run"
    /\ tier_log = <<>> /\ debug_ran = FALSE /\ product_elements = NotRun
    /\ elem_idx = 0 /\ products = <<>> /\ result = <<>>
    /\ screenshots = <<>> /\ avail_idx = 0 /\ last_check = NoCheck /\ available_products = <<>>
    /\ listing_ready = "not run" /\ check_log = <<>> /\ session = "none" /\ quits = 0

ScrapeInit ==
    /\ scraper \in {"intl", "browser"}
    /\ pc = "start" /\ driver = "none" /\ page = "blank"
    /\ health = NotRun /\ strategy_idx = 0 /\ invoked = <<>> /\ reloads = 0
    /\ cascades = 0 /\ retry_success = "not run"
    /\ tier_log = <<>> /\ debug_ran = FALSE /\ product_elements = NotRun
    /\ elem_idx = 0 /\ products = <<>> /\ result = <<>>
    /\ screenshots = <<>> /\ avail_idx = 0 /\ last_check = NoCheck /\ available_products = <<>>
    /\ listing_ready = "not run" /\ check_log = <<>> /\ session = "none" /\ quits = 0

\* `return []` inside the try: the finally clause still runs
ReturnEmpty == result' = <<>> /\ pc' = "finally"

\* a quit_driver without the finally clause: a raising quit leaves the driver
quit_driver_without_finally(drv, sess, raised) ==
    IF drv = "none" THEN [driver |-> drv, session |-> sess, calls |-> 0]
    ELSE IF raised THEN [driver |-> drv, session |-> "quit failed", calls |-> 1]
    ELSE [driver |-> "none", session |-> "closed", calls |-> 1]

\* WebDriverManager.quit_driver: `if self.driver:` quit it, swallow what the
\* quit raises, and in any case set self.driver = None; calls counts driver.quit()
quit_driver(drv, sess, raised) ==
    IF drv = "none" THEN [driver |-> drv, session |-> sess, calls |-> 0]
    ELSE [driver |-> "none", session |-> IF raised THEN "quit failed" ELSE "closed", calls |-> 1]

\* ETBWebDriverManager.quit_driver, the same code with a message in the except
etb_quit_driver(drv, sess, raised) ==
    IF drv = "none" THEN [driver |-> drv, session |-> sess, calls |-> 0]
    ELSE [driver |-> "none", session |-> IF raised THEN "quit failed" ELSE "closed", calls |-> 1]

\* webdriver_manager.setup_driver(); on failure scrape_products returns []
SetupDriver ==
    /\ scraper = "intl" /\ pc = "start"
    /\ \E ok \in BOOLEAN :
         IF ok THEN driver' = "live" /\ session' = "open" /\ pc' = "navigate" /\ UNCHANGED result
               ELSE ReturnEmpty /\ UNCHANGED <<driver, session>>
    /\ UNCHANGED <<idleVars, screenshots, avail_idx, last_check, available_products, listing_ready,
                   check_log, quits, scraper, page, retryVars, discoverVars, extractVars>>

\* driver.get(self.base_url); a navigation error returns []
Navigate ==
    /\ scraper = "intl" /\ pc = "navigate"
    /\ \/ \E id \in PageIds : page' = id /\ pc' = "health" /\ UNCHANGED result
       \/ ReturnEmpty /\ UNCHANGED page
    /\ UNCHANGED <<idleVars, availVars, scraper, driver, retryVars, discoverVars, extractVars>>

\* page_healthy, health_message = self._check_page_health() and the branch on it
\* a scraper that retries on every health failure
triggers_cascade_on_any_failure(page_healthy, health_message) == ~page_healthy

\* `if not page_healthy:` `if "Blocked by" in health_message:`
triggers_cascade(page_healthy, health_message) ==
    ~page_healthy /\ Contains(health_message, "Blocked by")

CheckHealth ==
    /\ scraper = "intl" /\ pc = "health"
    /\ \E read_ok \in BOOLEAN :
         /\ health' = PageHealth[page, read_ok]
         /\ IF triggers_cascade(health'[1], health'[2])
            THEN pc' = "retry" /\ strategy_idx' = 1 /\ cascades' = cascades + 1
            ELSE pc' = "discover" /\ UNCHANGED <<strategy_idx, cascades>>
    /\ UNCHANGED <<idleVars, availVars, scraper, driver, page, result, invoked, reloads, retry_success,
                   discoverVars, extractVars>>

\* the body of the for loop of _handle_protection_retry after strategy_func()
\* ended with `outcome` ("unblocked": it returned True; "blocked": it returned
\* False; "error": a driver call raised and its except returned False), and the
\* caller's branch when the method returns
StrategyReturned(name, outcome) ==
    /\ invoked' = Append(invoked, [name |-> name, outcome |-> outcome])
    /\ IF outcome = "unblocked"
       THEN /\ retry_success' = "True"
            /\ pc' = AfterCascade(TRUE)
            /\ UNCHANGED strategy_idx
       ELSE IF strategy_idx < Len(retry_strategies)
       THEN /\ strategy_idx' = strategy_idx + 1
            /\ UNCHANGED <<retry_success, pc>>
       ELSE /\ retry_success' = "False"
            /\ pc' = AfterCascade(FALSE)
            /\ UNCHANGED strategy_idx

AtStrategy(name) ==
    /\ scraper = "intl" /\ pc = "retry"
    /\ retry_strategies[strategy_idx] = name

\* a reload inside a strategy: the page it brings, or "raise" for a driver error
LoadOutcomes == PageIds \cup {"raise"}

\* the end of every strategy: read page_source and title, return `not is_blocked`;
\* the strategy's own except turns a driver error into False
StrategyOutcome(name, o, page_on_error) ==
    /\ page' = IF o = "raise" THEN page_on_error ELSE o
    /\ StrategyReturned(name, IF o = "raise" THEN "error"
                               ELSE IF PageBlocked(o) THEN "blocked" ELSE "unblocked")

ProgressiveDelays == <<15, 30, 45>>

\* _retry_progressive_delay: up to three waits with a refresh each, stopping at
\* the first refresh that shows an unblocked page
retry_progressive_delay ==
    /\ AtStrategy("retry_progressive_delay")
    /\ \E outs \in [1..Len(ProgressiveDelays) -> LoadOutcomes] :
         LET stops == {i \in DOMAIN outs : outs[i] = "raise" \/ ~PageBlocked(outs[i])}
             k     == IF stops = {} THEN Len(ProgressiveDelays) + 1
                      ELSE CHOOSE i \in stops : \A j \in stops : i <= j
             last  == IF k <= Len(ProgressiveDelays) /\ outs[k] # "raise" THEN k ELSE k - 1
         IN  /\ page' = IF last = 0 THEN page ELSE outs[last]
             /\ reloads' = reloads + last
             /\ StrategyReturned("retry_progressive_delay",
                                 IF k > Len(ProgressiveDelays) THEN "blocked"
                                 ELSE IF outs[k] = "raise" THEN "error" ELSE "unblocked")
    /\ UNCHANGED <<idleVars, availVars, scraper, driver, result, health, cascades, discoverVars, extractVars>>

\* _retry_clear_cookies_enhanced: clear cookies and storage, go to about:blank,
\* re-apply the anti-detection measures, load base_url again
retry_clear_cookies_enhanced ==
    /\ AtStrategy("retry_clear_cookies_enhanced")
    /\ \E o \in LoadOutcomes, blank_reached \in BOOLEAN :
         StrategyOutcome("retry_clear_cookies_enhanced", o,
                         IF blank_reached THEN "blank" ELSE page)
    /\ UNCHANGED <<idleVars, availVars, scraper, driver, result, health, reloads, cascades, discoverVars, extractVars>>

\* _retry_human_behavior: load the homepage, scroll, then load base_url
retry_human_behavior ==
    /\ AtStrategy("retry_human_behavior")
    /\ \E home \in LoadOutcomes, o \in LoadOutcomes :
         IF home = "raise"
         THEN StrategyOutcome("retry_human_behavior", "raise", page)
         ELSE StrategyOutcome("retry_human_behavior", o, home)
    /\ UNCHANGED <<idleVars, availVars, scraper, driver, result, health, reloads, cascades, discoverVars, extractVars>>

\* _retry_wait_and_reload: sleep 10 s, refresh, sleep 8 s
retry_wait_and_reload ==
    /\ AtStrategy("retry_wait_and_reload")
    /\ \E o \in LoadOutcomes : StrategyOutcome("retry_wait_and_reload", o, page)
    /\ UNCHANGED <<idleVars, availVars, scraper, driver, result, health, reloads, cascades, discoverVars, extractVars>>

\* _retry_random_delay: sleep 5 to 15 s, refresh, sleep 5 s
retry_random_delay ==
    /\ AtStrategy("retry_random_delay")
    /\ \E o \in LoadOutcomes : StrategyOutcome("retry_random_delay", o, page)
    /\ UNCHANGED <<idleVars, availVars, scraper, driver, result, health, reloads, cascades, discoverVars, extractVars>>

\* `if not retry_success: ... return []`
CascadeFailed ==
    /\ scraper = "intl" /\ pc = "return_empty"
    /\ ReturnEmpty
    /\ UNCHANGED <<idleVars, availVars, scraper, driver, page, retryVars, discoverVars, extractVars>>

\* `page_healthy, health_message = self._check_page_health()` after a
\* successful cascade; the value is only printed
RecheckHealth ==
    /\ scraper = "intl" /\ pc = "recheck"
    /\ \E read_ok \in BOOLEAN : health' = PageHealth[page, read_ok]
    /\ pc' = "discover"
    /\ UNCHANGED <<idleVars, availVars, scraper, driver, page, result, strategy_idx, invoked, reloads, cascades,
                   retry_success, discoverVars, extractVars>>

\* the finally clause: webdriver_manager.quit_driver()
Finally ==
    /\ scraper = "intl" /\ pc = "finally"
    /\ \E raised \in BOOLEAN :
          LET q == etb_quit_driver(driver, session, raised)
          IN  driver' = q.driver /\ session' = q.session /\ quits' = quits + q.calls
    /\ pc' = "done"
    /\ UNCHANGED <<idleVars, screenshots, avail_idx, last_check, available_products, listing_ready,
                   check_log, scraper, page, result, retryVars, discoverVars, extractVars>>


(***************************************************************************)
(* Product discovery and extraction of the international scraper.          *)
(***************************************************************************)
\* most elements a discovery tier finds on the modelled pages
MaxElems == 2

\* the members of S in document order
InOrder(S) == SelectSeq(DocumentOrder, LAMBDA e : e \in S)

\* what a discovery tier can return: elements of the page, or [] (nothing
\* matched, the wait timed out, or the tier's own except caught an error)
ElementLists == {InOrder(S) : S \in {T \in SUBSET Elements : Cardinality(T) <= MaxElems}}

\* a tier's result ending the cascade only when it holds several elements
TierShortCircuits_several(elements) == Len(elements) > 1

\* `if elements: return elements` after each tier
TierShortCircuits(elements) == elements # <<>>

\* a tier returned `elements`; the next tier runs at `next_pc`, and after the
\* last tier `return []`
TierReturned(tier, elements, next_pc) ==
    /\ tier_log' = Append(tier_log, [tier |-> tier, found |-> elements])
    /\ IF TierShortCircuits(elements)
       THEN product_elements' = elements /\ pc' = "discovered"
       ELSE IF next_pc = "discovered"
       THEN product_elements' = <<>> /\ pc' = "discovered"
       ELSE pc' = next_pc /\ UNCHANGED product_elements

\* wait_for_products_to_load: the ETB_PRODUCT_SELECTORS loop
etb_product_selectors ==
    /\ scraper = "intl" /\ pc = "discover"
    /\ \E elements \in ElementLists : TierReturned("exact_selector", elements, "tier_price")
    /\ UNCHANGED <<idleVars, availVars, scraper, driver, page, result, retryVars, debug_ran, extractVars>>

\* _try_fallback_product_detection, strategy 1
find_elements_by_price ==
    /\ scraper = "intl" /\ pc = "tier_price"
    /\ \E elements \in ElementLists : TierReturned("price", elements, "tier_patterns")
    /\ UNCHANGED <<idleVars, availVars, scraper, driver, page, result, retryVars, debug_ran, extractVars>>

\* _try_fallback_product_detection, strategy 2
find_elements_by_patterns ==
    /\ scraper = "intl" /\ pc = "tier_patterns"
    /\ \E elements \in ElementLists : TierReturned("patterns", elements, "tier_generic")
    /\ UNCHANGED <<idleVars, availVars, scraper, driver, page, result, retryVars, debug_ran, extractVars>>

\* _try_fallback_product_detection, strategy 3
find_generic_containers ==
    /\ scraper = "intl" /\ pc = "tier_generic"
    /\ \E elements \in ElementLists : TierReturned("generic", elements, "tier_advanced")
    /\ UNCHANGED <<idleVars, availVars, scraper, driver, page, result, retryVars, debug_ran, extractVars>>

\* _try_fallback_product_detection, strategy 4
advanced_dom_analysis ==
    /\ scraper = "intl" /\ pc = "tier_advanced"
    /\ \E elements \in ElementLists : TierReturned("advanced_dom", elements, "debug")
    /\ UNCHANGED <<idleVars, availVars, scraper, driver, page, result, retryVars, debug_ran, extractVars>>

\* _try_fallback_product_detection, strategy 5: diagnostics only
debug_page_structure ==
    /\ scraper = "intl" /\ pc = "debug"
    /\ debug_ran' = TRUE
    /\ pc' = "tier_dynamic"
    /\ UNCHANGED <<idleVars, availVars, scraper, driver, page, result, retryVars, tier_log, product_elements,
                   extractVars>>

\* _try_fallback_product_detection, strategy 6
find_dynamic_content ==
    /\ scraper = "intl" /\ pc = "tier_dynamic"
    /\ \E elements \in ElementLists : TierReturned("dynamic", elements, "discovered")
    /\ UNCHANGED <<idleVars, availVars, scraper, driver, page, result, retryVars, debug_ran, extractVars>>

\* scrape_products: `if not product_elements: ... return []`
NoProductsFound ==
    /\ scraper = "intl" /\ pc = "discovered"
    /\ IF product_elements = <<>> THEN ReturnEmpty ELSE pc' = "extract" /\ UNCHANGED result
    /\ UNCHANGED <<idleVars, availVars, scraper, driver, page, retryVars, discoverVars, extractVars>>

\* one turn of the extraction loop of scrape_products
ExtractProduct ==
    /\ scraper = "intl" /\ pc = "extract"
    /\ elem_idx < Len(product_elements)
    /\ elem_idx' = elem_idx + 1
    /\ products' = products \o EtbExtracted[product_elements[elem_idx + 1]]
    /\ UNCHANGED <<idleVars, availVars, runVars, retryVars, discoverVars>>

\* scrape_products: `return products` after the loop
ReturnProducts ==
    /\ scraper = "intl" /\ pc = "extract"
    /\ elem_idx = Len(product_elements)
    /\ result' = products
    /\ pc' = "finally"
    /\ UNCHANGED <<idleVars, availVars, scraper, driver, page, retryVars, discoverVars, extractVars>>

(***************************************************************************)
(* Page validation and the availability verdict of the component scraper.  *)
(***************************************************************************)
BUY_INDICATORS ==
    << "buy now", "buy", "add to cart", "add to bag", "purchase", "order now",
       "add-to-cart", "buy-now", "add item", "order", "checkout", "get it now" >>

CRITICAL_ERROR_INDICATORS ==
    << "page not found", "404 error", "server error", "500 error",
       "network error", "connection failed",
       "access denied", "forbidden", "not available in your region",
       "blocked", "captcha required", "bot detection", "unusual traffic detected",
       "temporarily unavailable", "site maintenance", "under maintenance",
       "internal server error", "bad gateway", "service unavailable" >>

PRODUCT_PAGE_INDICATORS ==
    << "price", "product", "buy", "cart", "add to cart", "purchase", "order",
       "add-to-cart", "buy now", "buy-now", "quantity", "qty", "delivery",
       "shipping", "checkout", "item", "sku", "stock", "available",
       "pdp-", "lazada", "item-detail", "product-detail", "current-price",
       "original-price", "sale-price", "final-price",
       "s$", "$", "€", "£", "¥", "usd", "sgd", "price_", "currency",
       "rating", "review", "star", "seller", "brand", "description",
       "specification", "warranty", "return", "exchange" >>

ambiguous_error_phrases == << "error occurred", "something went wrong", "try again later" >>

\* the markup contexts _has_ambiguous_errors looks for a phrase in
ErrorContexts(phrase) ==
    << "<h1>" \o phrase \o "</h1>", "<h2>" \o phrase \o "</h2>", "<h3>" \o phrase \o "</h3>",
       "<div class=\"error\">" \o phrase, "<div class=\"message\">" \o phrase,
       "<p class=\"error\">" \o phrase, "<span class=\"error\">" \o phrase >>

ProductPageIds == {"in_stock", "out_of_stock", "out_of_stock_preorder", "not_found", "stub"}

\* the product pages a product URL can lead to; price is what
\* extract_price_from_page finds on the page ("None" for None)
ProductPageOf(id) ==
    CASE id = "in_stock" ->
            [source |-> "<html><body><h1>Elite Trainer Box</h1><span class='price'>$49.90</span>"
                        \o "<button>Buy Now</button></body></html>",
             title |-> "Elite Trainer Box", price |-> "$49.90"]
      [] id = "out_of_stock" ->
            [source |-> "<html><body><h1>Elite Trainer Box</h1><span class='price'>$49.90</span>"
                        \o "<p>Out of stock</p></body></html>",
             title |-> "Elite Trainer Box", price |-> "$49.90"]
      [] id = "out_of_stock_preorder" ->
            [source |-> "<html><body><h1>Elite Trainer Box</h1><p>Out of stock</p>"
                        \o "<a>Pre-order the next wave</a></body></html>",
             title |-> "Elite Trainer Box", price |-> "None"]
      [] id = "not_found" ->
            [source |-> "<html><body><h1>Page not found</h1><p>This product does not exist.</p>"
                        \o "</body></html>",
             title |-> "Something went wrong", price |-> "None"]
      [] id = "stub" ->
            [source |-> "  <html><body></body></html>  ", title |-> "", price |-> "None"]

AllPageIds == PageIds \cup ProductPageIds

ValidationPageIds ==
    {"bare_phrase", "error_markup", "error_title", "no_indicators", "short49", "exact50",
     "datadome_listing"}

\* further pages handed to validate_page_loaded, one for each of its tests
ValidationPageOf(id) ==
    CASE id = "bare_phrase" ->
            [source |-> "<html><body><h1>Elite Trainer Box</h1><span class='price'>$49.90</span>"
                        \o "<p>Tell us if something went wrong with your parcel</p></body></html>",
             title |-> "Elite Trainer Box"]
      [] id = "error_markup" ->
            [source |-> "<html><body><h1>Elite Trainer Box</h1><span class='price'>$49.90</span>"
                        \o "<div class=\"error\">Something went wrong</div></body></html>",
             title |-> "Elite Trainer Box"]
      [] id = "error_title" ->
            [source |-> "<html><body><h1>Elite Trainer Box</h1><span class='price'>$49.90</span>"
                        \o "<button>Buy Now</button></body></html>",
             title |-> "Error occurred - try again later"]
      [] id = "no_indicators" ->
            [source |-> "<html><body><p>Welcome to our humble homepage, nothing here yet</p>"
                        \o "</body></html>",
             title |-> "Home"]
      [] id = "short49" ->
            [source |-> "   <html><body><p>price 49.90 SGD</p></body></html>     ",
             title |-> "Elite Trainer Box"]
      [] id = "exact50" ->
            [source |-> "  <html><body><p>price: 49.90 SGD</p></body></html>    ",
             title |-> "Elite Trainer Box"]
      [] id = "datadome_listing" ->
            [source |-> "<html><head><script src='https://js.datadome.co/tags.js'></script></head>"
                        \o "<body><h1>Elite Trainer Box</h1><span class='price'>$49.90</span>"
                        \o "</body></html>",
             title |-> "Elite Trainer Box"]

\* source and title of any modelled page
Shown(id) ==
    IF id \in ProductPageIds
    THEN [source |-> ProductPageOf(id).source, title |-> ProductPageOf(id).title]
    ELSE IF id \in ValidationPageIds THEN ValidationPageOf(id)
    ELSE PageOf(id)

\* fewest stripped characters _has_sufficient_content accepts
MinContentLength == 50

has_sufficient_content(page_source) ==
    ~(page_source = "" \/ Len(Strip(page_source)) < MinContentLength)

has_critical_errors(page_lower) == AnyIn(CRITICAL_ERROR_INDICATORS, page_lower)

\* a validator rejecting an ambiguous phrase wherever it occurs
has_ambiguous_errors_anywhere(page_lower, title) ==
    \E k \in 1..Len(ambiguous_error_phrases) :
        \/ Contains(lower(title), ambiguous_error_phrases[k])
        \/ Contains(page_lower, ambiguous_error_phrases[k])

has_ambiguous_errors(page_lower, title) ==
    \E k \in 1..Len(ambiguous_error_phrases) :
        \/ Contains(lower(title), ambiguous_error_phrases[k])
        \/ AnyIn(ErrorContexts(ambiguous_error_phrases[k]), page_lower)

has_product_indicators(page_lower) == AnyIn(PRODUCT_PAGE_INDICATORS, page_lower)

\* PageValidator.validate_page_loaded on page `id`; recaptcha is what the
\* reCAPTCHA handler reports: "none" (not detected), "solved" (handled, the
\* page is read again) or "unsolved" (handling failed or timed out)
validate_page_loaded(current_url, id, recaptcha) ==
    LET page_source == Shown(id).source
        page_lower == lower(page_source)
    IN  /\ current_url # "" /\ current_url # "data:,"
        /\ has_sufficient_content(page_source)
        /\ recaptcha # "unsolved"
        /\ ~has_critical_errors(page_lower)
        /\ ~has_ambiguous_errors(page_lower, Shown(id).title)
        /\ has_product_indicators(page_lower)

\* validate_page_loaded of each page reached at a real URL, reCAPTCHA aside
PageValid == [id \in AllPageIds |-> validate_page_loaded("https://www.lazada.sg/", id, "none")]

RecaptchaOutcomes == {"none", "solved", "unsolved"}

\* PageValidator.wait_for_page_ready(expected_url): ready is whether
\* document.readyState became "complete" within the timeout
wait_for_page_ready(ready, current_url, id, recaptcha) ==
    /\ ready
    /\ current_url # "" /\ current_url # "data:,"
    /\ recaptcha # "unsolved"
    /\ PageValid[id]

\* AvailabilityChecker.check_availability_indicators
check_availability_indicators(page_source) ==
    IF AnyIn(BUY_INDICATORS, lower(page_source))
    THEN <<TRUE, "Buy/Add to cart options available">>
    ELSE <<FALSE, "No buy options found">>

QtyStates == {"none", "enabled", "disabled", "readonly"}

\* AvailabilityChecker.check_quantity_selector_disabled on the page's quantity control
check_quantity_selector_disabled(qty) == qty \in {"disabled", "readonly"}

\* the verdict with a disabled or read-only quantity control overriding the indicators
availability_verdict_quantity_overrides(page_source, qty, price) ==
    IF check_quantity_selector_disabled(qty)
    THEN <<FALSE, "Not available (Quantity selector disabled)", price>>
    ELSE IF check_availability_indicators(page_source)[1]
    THEN <<TRUE, "Available" \o (IF price # "None" THEN " - " \o price ELSE ""), price>>
    ELSE <<FALSE, "Not available (" \o check_availability_indicators(page_source)[2] \o ")", price>>

\* check_product_availability after validation passed: (is_available, status, price)
availability_verdict(page_source, qty, price) ==
    IF check_availability_indicators(page_source)[1]
    THEN <<TRUE, "Available" \o (IF price # "None" THEN " - " \o price ELSE ""), price>>
    ELSE <<FALSE, "Not available (" \o check_availability_indicators(page_source)[2] \o ")", price>>

\* the verdict on each product page in each state of its quantity control
PageVerdict ==
    [id \in ProductPageIds, qty \in QtyStates |->
        availability_verdict(ProductPageOf(id).source, qty, ProductPageOf(id).price)]

(***************************************************************************)
(* BrowserScraper.scrape_products.                                         *)
(***************************************************************************)
\* base_domain default of normalize_url
DefaultBaseDomain == "https://www.lazada.sg"

\* self.base_url of the component scraper
ListingUrl == "https://www.lazada.sg/shop/etb"

\* BrowserScraper.setup_driver(); on failure scrape_products returns []
browser_setup_driver ==
    /\ scraper = "browser" /\ pc = "start"
    /\ \E ok \in BOOLEAN :
         IF ok THEN driver' = "live" /\ session' = "open" /\ pc' = "navigate" /\ UNCHANGED result
               ELSE ReturnEmpty /\ UNCHANGED <<driver, session>>
    /\ UNCHANGED <<idleVars, screenshots, avail_idx, last_check, available_products, listing_ready,
                   check_log, quits, scraper, page, retryVars, discoverVars, extractVars>>

\* self.driver.get(self.base_url); an error goes to the outer except, which returns []
browser_navigate ==
    /\ scraper = "browser" /\ pc = "navigate"
    /\ \/ \E id \in PageIds : page' = id /\ pc' = "ready" /\ UNCHANGED result
       \/ ReturnEmpty /\ UNCHANGED page
    /\ UNCHANGED <<idleVars, availVars, scraper, driver, retryVars, discoverVars, extractVars>>

\* the screenshots scrape_products takes when the listing page fails validation
listing_shots_failed == <<>>

\* the screenshot scrape_products takes once the listing page passed validation
listing_shots_ready == <<"product_listing_page">>

\* `if not self.page_validator.wait_for_page_ready(self.base_url): return []`,
\* then the listing screenshot
browser_wait_for_page_ready ==
    /\ scraper = "browser" /\ pc = "ready"
    /\ \E ready \in BOOLEAN, current_url \in {ListingUrl, "data:,"}, recaptcha \in RecaptchaOutcomes :
         IF wait_for_page_ready(ready, current_url, page, recaptcha)
         THEN /\ listing_ready' = "True"
              /\ screenshots' = screenshots \o listing_shots_ready
              /\ pc' = "discover"
              /\ UNCHANGED result
         ELSE /\ listing_ready' = "False"
              /\ screenshots' = screenshots \o listing_shots_failed
              /\ ReturnEmpty
    /\ UNCHANGED <<idleVars, avail_idx, last_check, available_products, check_log, session, quits,
                   scraper, driver, page, retryVars, discoverVars, extractVars>>

\* ProductExtractor.wait_for_products_to_load: _try_product_selectors
try_product_selectors ==
    /\ scraper = "browser" /\ pc = "discover"
    /\ \E elements \in ElementLists : TierReturned("exact_selector", elements, "tier_price")
    /\ UNCHANGED <<idleVars, availVars, scraper, driver, page, result, retryVars, debug_ran,
                   extractVars>>

\* ProductExtractor.wait_for_products_to_load: _try_price_selector_fallback
try_price_selector_fallback ==
    /\ scraper = "browser" /\ pc = "tier_price"
    /\ \E elements \in ElementLists : TierReturned("price", elements, "discovered")
    /\ UNCHANGED <<idleVars, availVars, scraper, driver, page, result, retryVars, debug_ran,
                   extractVars>>

\* one turn of the loop of _extract_products_from_elements
browser_extract_product ==
    /\ scraper = "browser" /\ pc = "discovered"
    /\ elem_idx < Len(product_elements)
    /\ elem_idx' = elem_idx + 1
    /\ products' = products \o PeExtracted[product_elements[elem_idx + 1]]
    /\ UNCHANGED <<idleVars, availVars, runVars, retryVars, discoverVars>>

\* scrape_products after the loop: `if not products: return []`
browser_products_extracted ==
    /\ scraper = "browser" /\ pc = "discovered"
    /\ elem_idx = Len(product_elements)
    /\ IF products = <<>> THEN ReturnEmpty ELSE pc' = "availability" /\ UNCHANGED result
    /\ UNCHANGED <<idleVars, availVars, scraper, driver, page, retryVars, discoverVars, extractVars>>

\* check_product_availability taking no screenshot after a failed validation
validation_failed_shots_none == <<>>

\* the screenshot check_product_availability takes after a failed validation
validation_failed_shots == <<"product_page_failed">>

\* AvailabilityChecker.check_product_availability(product_url) when the browser
\* lands on page `id` ("raise": driver.get raised) whose quantity control is in
\* state qty: what it returns, the screenshots it takes, the calls it makes on
\* the driver and its collaborators in call order (a screenshot is written as
\* its label), whether validation passed
check_product_availability(product_url, id, qty, ready, current_url, recaptcha) ==
    LET normalized_url == normalize_url(product_url, DefaultBaseDomain)
    IN  IF ~(normalized_url # "" /\ StartsWith(normalized_url, "http"))
        THEN [returned |-> <<FALSE, "Invalid URL", "None">>, shots |-> <<>>, calls |-> <<>>,
              navigated |-> FALSE, validated |-> FALSE]
        ELSE IF id = "raise"
        THEN [returned |-> <<FALSE, "Error: driver.get failed", "None">>, shots |-> <<>>,
              calls |-> <<"driver.get">>,
              navigated |-> FALSE, validated |-> FALSE]
        ELSE IF ~wait_for_page_ready(ready, current_url, id, recaptcha)
        THEN [returned |-> <<FALSE, "Page failed to load correctly", "None">>,
              shots |-> <<"product_page">> \o validation_failed_shots,
              calls |-> <<"driver.get", "product_page", "wait_for_page_ready">>
                        \o validation_failed_shots,
              navigated |-> TRUE, validated |-> FALSE]
        ELSE [returned |-> PageVerdict[id, qty], shots |-> <<"product_page">>,
              calls |-> <<"driver.get", "product_page", "wait_for_page_ready",
                          "_extract_price_from_page", "check_availability_indicators">>,
              navigated |-> TRUE, validated |-> TRUE]

\* a loop that reports every checked product
available_after_all(available, checked, is_available) == Append(available, checked)

\* `if is_available: available_products.append(product.to_dict())`
available_after(available, checked, is_available) ==
    IF is_available THEN Append(available, checked) ELSE available

\* one turn of the loop of _check_products_availability
check_products_availability ==
    /\ scraper = "browser" /\ pc = "availability"
    /\ avail_idx < Len(products)
    /\ avail_idx' = avail_idx + 1
    /\ LET product == products[avail_idx + 1]
       IN  IF product.url = ""
           THEN /\ products' = [products EXCEPT ![avail_idx + 1] =
                                  [@ EXCEPT !.availability_status = "No URL available",
                                            !.is_available = FALSE, !.price = "None"]]
                /\ UNCHANGED <<screenshots, last_check, available_products, page, check_log>>
           ELSE \E id \in ProductPageIds \cup {"raise"}, qty \in QtyStates, ready \in BOOLEAN,
                   current_url \in {normalize_url(product.url, DefaultBaseDomain), "data:,"},
                   recaptcha \in RecaptchaOutcomes :
                  LET c == check_product_availability(product.url, id, qty, ready, current_url,
                                                      recaptcha)
                      checked == [product EXCEPT !.availability_status = c.returned[2],
                                                 !.is_available = c.returned[1],
                                                 !.price = c.returned[3]]
                  IN  /\ products' = [products EXCEPT ![avail_idx + 1] = checked]
                      /\ available_products' =
                            available_after(available_products, checked, c.returned[1])
                      /\ screenshots' = screenshots \o c.shots
                      /\ check_log' = Append(check_log, product.url)
                      /\ page' = IF c.navigated THEN id ELSE page
                      /\ last_check' =
                            [url |-> normalize_url(product.url, DefaultBaseDomain),
                             page |-> IF c.navigated THEN id ELSE "blank",
                             qty |-> IF c.validated THEN qty ELSE "none",
                             validated |-> c.validated, returned |-> c.returned,
                             calls |-> c.calls]
    /\ UNCHANGED <<idleVars, listing_ready, session, quits, scraper, pc, driver, result, retryVars,
                   discoverVars, elem_idx>>

\* scrape_products: `return available_products`
browser_return_available ==
    /\ scraper = "browser" /\ pc = "availability"
    /\ avail_idx = Len(products)
    /\ result' = available_products
    /\ pc' = "finally"
    /\ UNCHANGED <<idleVars, availVars, scraper, driver, page, retryVars, discoverVars, extractVars>>

\* the finally clause: self.webdriver_manager.quit_driver()
browser_finally ==
    /\ scraper = "browser" /\ pc = "finally"
    /\ \E raised \in BOOLEAN :
          LET q == quit_driver(driver, session, raised)
          IN  driver' = q.driver /\ session' = q.session /\ quits' = quits + q.calls
    /\ pc' = "done"
    /\ UNCHANGED <<idleVars, screenshots, avail_idx, last_check, available_products, listing_ready,
                   check_log, scraper, page, result, retryVars, discoverVars, extractVars>>

(***************************************************************************)
(* One call of PageValidator.validate_page_loaded.                         *)
(***************************************************************************)
ValIdle ==
    /\ val_url = "" /\ val_page = "blank" /\ val_recaptcha = "none"
    /\ val_raises = FALSE /\ val_result = "not run"

ValUrls == {"https://www.lazada.sg/products/etb", "", "data:,"}

ValInit ==
    /\ val_url \in ValUrls
    /\ val_page \in AllPageIds \cup ValidationPageIds
    /\ val_recaptcha \in RecaptchaOutcomes
    /\ val_raises \in BOOLEAN
    /\ val_result = "not run"

\* validate_page_loaded(expected_url); its except returns False
ValidatePage ==
    /\ val_result = "not run"
    /\ val_result' = IF ~val_raises /\ validate_page_loaded(val_url, val_page, val_recaptcha)
                     THEN "True" ELSE "False"
    /\ UNCHANGED <<val_url, val_page, val_recaptcha, val_raises>>
    /\ UNCHANGED <<detVars, nzVars, scrapeVars, hpVars, cacheVars, readyVars, exVars, fetchVars, filterVars, genericVars, clickVars, mainVars, purchVars>>

(***************************************************************************)
(* One call of InternationalETBScraper._check_page_health.                 *)
(***************************************************************************)
HpIdle == hp_source = "" /\ hp_title = "" /\ hp_read_ok = TRUE /\ hp_result = <<>>

\* texts carrying the marks of no vendor, of one vendor, or of two
HealthMarks ==
    {"Elite Trainer Boxes", "Incapsula incident id 12345", "cf-ray: 7d1a", "DataDome",
     "px-captcha", "Access Denied", "geo.captcha-delivery.com visid_incap_77"}

\* the text as a bare fragment or in a document, short or padded past 500 characters
HealthSource(mark, structured, large) ==
    LET body == mark \o (IF large THEN Filler ELSE "")
    IN  IF structured THEN "<html><body><div>" \o body \o "</div></body></html>"
        ELSE IF large THEN mark \o Repeat("<p>Elite Trainer Box 49.90</p>", 20)
        ELSE mark

HealthSources ==
    {HealthSource(m, st, lg) : m \in HealthMarks, st \in BOOLEAN, lg \in BOOLEAN}

HealthTitles == {"", "  ", "Pokemon Center", "Just a moment..."}

HpInit ==
    /\ hp_source \in HealthSources
    /\ hp_title \in HealthTitles
    /\ hp_read_ok \in BOOLEAN
    /\ hp_result = <<>>

CheckPageHealth ==
    /\ hp_result = <<>>
    /\ hp_result' = check_page_health_of(hp_source, hp_title,
                        is_blocked_by_protection(hp_source, hp_title), hp_read_ok)
    /\ UNCHANGED <<hp_source, hp_title, hp_read_ok>>
    /\ UNCHANGED <<detVars, nzVars, scrapeVars, valVars, cacheVars, readyVars, exVars, fetchVars, filterVars, genericVars, clickVars, mainVars, purchVars>>

(***************************************************************************)
(* The reusable driver of selenium_automation.                             *)
(***************************************************************************)
MaxDrivers == 3

NoCall == [op |-> "none", force_new |-> FALSE, before |-> 0, before_alive |-> FALSE,
           setup_ok |-> FALSE, returned |-> 0]

\* module load: `_global_driver = None`
CacheInit ==
    global_driver = 0 /\ alive = {} /\ made = 0 /\ quit_called = {} /\ last_call = NoCall

\* a reuse test that does not probe the session
can_reuse_unprobed(force_new, cached, is_alive) == ~force_new /\ cached # 0

\* `if not force_new and _global_driver is not None:` with a current_url
\* read that does not raise
can_reuse(force_new, cached, is_alive) == ~force_new /\ cached # 0 /\ is_alive

\* get_or_create_driver(headless, force_new); setup_ok is whether
\* setup_chrome_driver returns a driver rather than None
get_or_create_driver(force_new, setup_ok) ==
    /\ setup_ok => made < MaxDrivers
    /\ LET is_alive == global_driver \in alive
           reuse == can_reuse(force_new, global_driver, is_alive)
           created == IF setup_ok THEN made + 1 ELSE 0
           returned == IF reuse THEN global_driver ELSE created
       IN  /\ global_driver' = returned
           /\ made' = IF ~reuse /\ setup_ok THEN made + 1 ELSE made
           /\ alive' = IF ~reuse /\ setup_ok THEN alive \cup {made + 1} ELSE alive
           /\ last_call' = [op |-> "get", force_new |-> force_new, before |-> global_driver,
                            before_alive |-> is_alive, setup_ok |-> setup_ok,
                            returned |-> returned]
    /\ UNCHANGED quit_called
    /\ UNCHANGED <<detVars, nzVars, scrapeVars, valVars, hpVars, readyVars, exVars, fetchVars, filterVars, genericVars, clickVars, mainVars, purchVars>>

GetOrCreateDriver == \E force_new \in BOOLEAN, setup_ok \in BOOLEAN :
                        get_or_create_driver(force_new, setup_ok)

\* the drivers quit once cleanup_driver has run: `_global_driver.quit()` is
\* called on the cached driver only
cleanup_quits(cached, quits_so_far) ==
    IF cached # 0 THEN quits_so_far \cup {cached} ELSE quits_so_far

\* cleanup_driver(): quit the cached driver, whatever the quit raises, and
\* empty the cache
CleanupDriver ==
    /\ \E raised \in BOOLEAN :
          alive' = IF global_driver # 0 /\ ~raised THEN alive \ {global_driver} ELSE alive
    /\ quit_called' = cleanup_quits(global_driver, quit_called)
    /\ global_driver' = 0
    /\ last_call' = [NoCall EXCEPT !.op = "cleanup", !.before = global_driver,
                                   !.before_alive = global_driver \in alive]
    /\ UNCHANGED made
    /\ UNCHANGED <<detVars, nzVars, scrapeVars, valVars, hpVars, readyVars, exVars, fetchVars, filterVars, genericVars, clickVars, mainVars, purchVars>>

\* the browser behind a driver crashes or is closed
DriverDies ==
    /\ \E d \in alive : alive' = alive \ {d}
    /\ UNCHANGED <<global_driver, made, quit_called, last_call>>
    /\ UNCHANGED <<detVars, nzVars, scrapeVars, valVars, hpVars, readyVars, exVars, fetchVars, filterVars, genericVars, clickVars, mainVars, purchVars>>

(***************************************************************************)
(* One call of PageValidator.wait_for_page_ready.                          *)
(***************************************************************************)
max_stability_checks == 3

NotPolled == [polls |-> 0, stable |-> "not run", result |-> "not run"]

PrIdle == pr_ready = FALSE /\ pr_sizes = <<>> /\ pr_page = "blank" /\ pr_out = NotPolled

PolledSizes == {0, 120, 130}

PrInit ==
    /\ pr_ready \in BOOLEAN
    /\ pr_sizes \in [1..max_stability_checks -> PolledSizes]
    /\ pr_page \in {"healthy", "small", "in_stock", "not_found"}
    /\ pr_out = NotPolled

\* the stability loop from iteration `attempt` (0-based) on: each iteration
\* polls once; `break` when stable_attempts reaches 2, the for-else otherwise
RECURSIVE stability_loop(_, _, _, _)
stability_loop(sizes, attempt, previous_source_length, stable_attempts) ==
    IF attempt >= max_stability_checks
    THEN [polls |-> attempt, stable |-> "False"]
    ELSE LET current_source_length == sizes[attempt + 1]
         IN  IF current_source_length = previous_source_length /\ current_source_length > 0
             THEN IF stable_attempts + 1 >= 2
                  THEN [polls |-> attempt + 1, stable |-> "True"]
                  ELSE stability_loop(sizes, attempt + 1, previous_source_length,
                                      stable_attempts + 1)
             ELSE stability_loop(sizes, attempt + 1, current_source_length, 0)

\* wait_for_page_ready(expected_url): a readyState timeout returns False
\* before any poll; otherwise the loop runs and validate_page_loaded decides
WaitForPageReady ==
    /\ pr_out = NotPolled
    /\ pr_out' =
          IF ~pr_ready THEN [polls |-> 0, stable |-> "not run", result |-> "False"]
          ELSE LET loop == stability_loop(pr_sizes, 0, 0, 0)
               IN  [polls |-> loop.polls, stable |-> loop.stable,
                    result |-> IF wait_for_page_ready(pr_ready, "https://www.lazada.sg/", pr_page,
                                                      "none")
                               THEN "True" ELSE "False"]
    /\ UNCHANGED <<pr_ready, pr_sizes, pr_page>>
    /\ UNCHANGED <<detVars, nzVars, scrapeVars, valVars, hpVars, cacheVars, exVars, fetchVars, filterVars, genericVars, clickVars, mainVars, purchVars>>

(***************************************************************************)
(* The field extractors run twice on one element.                          *)
(***************************************************************************)
MaxClock == 3

ExIdle == ex_extractor = "etb" /\ ex_elem = "stale" /\ ex_clock = 0 /\ ex_out = <<>>

ExInit ==
    /\ ex_extractor \in {"etb", "pe"}
    /\ ex_elem \in Elements
    /\ ex_clock \in 0..1
    /\ ex_out = <<>>

\* a timestamp with the resolution of a second
isoformat_seconds(t) == "2024-01-01T12:00:00"

\* datetime.isoformat() of the time t ticks (microseconds) after noon; the
\* fraction is left out when it is zero
isoformat(t) ==
    IF t = 0 THEN "2024-01-01T12:00:00" ELSE "2024-01-01T12:00:00.00000" \o ToString(t)

\* get_timestamp() at time t
get_timestamp(t) == isoformat(t)

\* Python s.rstrip("0") and s.lstrip("0")
RECURSIVE rstrip0(_)
rstrip0(s) == IF s # "" /\ CharAt(s, Len(s)) = "0" THEN rstrip0(SubSeq(s, 1, Len(s) - 1)) ELSE s

RECURSIVE lstrip0(_)
lstrip0(s) == IF s # "" /\ CharAt(s, 1) = "0" THEN lstrip0(SubSeq(s, 2, Len(s))) ELSE s

\* str(float(tok)) for a decimal token of a few digits
float_str(tok) ==
    LET dot == Find(tok, ".")
        whole == IF dot = 0 THEN tok ELSE SubSeq(tok, 1, dot - 1)
        frac == IF dot = 0 THEN "" ELSE SubSeq(tok, dot + 1, Len(tok))
        w == lstrip0(whole)
        f == rstrip0(frac)
    IN  (IF w = "" THEN "0" ELSE w) \o "." \o (IF f = "" THEN "0" ELSE f)

\* ETBProductExtractor.extract_product_info(element) called at time now, with
\* the fields priceShow and extracted_at
extract_product_info_at(e, now) ==
    IF EtbExtracted[e] = <<>> THEN <<>>
    ELSE LET product == EtbExtracted[e][1]
         IN  << product @@
                [priceShow |-> IF product.price = "None" THEN "" ELSE float_str(product.price),
                 extracted_at |-> get_timestamp(now)] >>

\* ProductExtractor.extract_product_info_from_element(element) called at time
\* now; Product.__post_init__ sets scraped_at
extract_product_info_from_element_at(e, now) ==
    IF PeExtracted[e] = <<>> THEN <<>>
    ELSE << PeExtracted[e][1] @@ [scraped_at |-> isoformat(now)] >>

\* one call of the chosen extractor on the element
RunExtractor ==
    /\ Len(ex_out) < 2
    /\ ex_out' = Append(ex_out,
          [called_at |-> ex_clock,
           returned |-> IF ex_extractor = "etb"
                        THEN extract_product_info_at(ex_elem, ex_clock)
                        ELSE extract_product_info_from_element_at(ex_elem, ex_clock)])
    /\ UNCHANGED <<ex_extractor, ex_elem, ex_clock>>
    /\ UNCHANGED <<detVars, nzVars, scrapeVars, valVars, hpVars, cacheVars, readyVars, fetchVars, filterVars, genericVars, clickVars, mainVars, purchVars>>

\* time passes
Tick ==
    /\ ex_clock < MaxClock
    /\ ex_clock' = ex_clock + 1
    /\ UNCHANGED <<ex_extractor, ex_elem, ex_out>>
    /\ UNCHANGED <<detVars, nzVars, scrapeVars, valVars, hpVars, cacheVars, readyVars, fetchVars, filterVars, genericVars, clickVars, mainVars, purchVars>>


(***************************************************************************)
(* One call of scraper_common.fetch_json.                                  *)
(***************************************************************************)
MaxFetchRetries == 3

DEFAULT_BACKOFF == 1

FetchIdle ==
    /\ fj_retries = 0 /\ fj_attempt = 0 /\ fj_responses = <<>> /\ fj_waits = <<>>
    /\ fj_result = "running" /\ fj_returned = <<>>

FetchInit ==
    /\ fj_retries \in 1..MaxFetchRetries
    /\ fj_attempt = 0 /\ fj_responses = <<>> /\ fj_waits = <<>>
    /\ fj_result = "running" /\ fj_returned = <<>>

\* what a request can bring: status 0 stands for requests.get raising
FetchResponses ==
    { [status |-> 200, text |-> "{\"mods\": {\"listItems\": []}}"],
      [status |-> 200, text |-> "jsonp {\"mods\": {\"listItems\": []}}"],
      [status |-> 200, text |-> "<html>captcha {\"mods\": </html>"],
      [status |-> 200, text |-> "<html>Access Denied</html>"],
      [status |-> 403, text |-> "{\"mods\": {\"listItems\": []}}"],
      [status |-> 0,   text |-> ""] }

\* json.loads(text) succeeds
JsonParses(text) == text = "{\"mods\": {\"listItems\": []}}"

\* the text json.loads is given in the end: the whole text, or as a last
\* resort the text from '{"mods"' on; "" when neither parses
ParsedText(text) ==
    LET start == Find(text, "{\"mods\"")
    IN  IF JsonParses(text) THEN text
        ELSE IF start # 0 /\ JsonParses(SubSeq(text, start, Len(text)))
        THEN SubSeq(text, start, Len(text))
        ELSE ""

\* one attempt of the loop succeeds on this response
AttemptSucceeds(resp) == resp.status = 200 /\ ParsedText(resp.text) # ""

RECURSIVE Pow2(_)
Pow2(n) == IF n = 0 THEN 1 ELSE 2 * Pow2(n - 1)

\* one iteration of `while attempt < retries:`
FetchAttempt ==
    /\ fj_result = "running"
    /\ fj_attempt < fj_retries
    /\ \E resp \in FetchResponses :
          /\ fj_responses' = Append(fj_responses, resp)
          /\ IF AttemptSucceeds(resp)
             THEN /\ fj_result' = "tuple"
                  /\ fj_returned' = <<ParsedText(resp.text), resp.text>>
                  /\ UNCHANGED <<fj_attempt, fj_waits>>
             ELSE /\ fj_attempt' = fj_attempt + 1
                  /\ fj_waits' = Append(fj_waits, DEFAULT_BACKOFF * Pow2(fj_attempt' - 1))
                  /\ UNCHANGED <<fj_result, fj_returned>>
    /\ UNCHANGED fj_retries
    /\ UNCHANGED <<detVars, nzVars, scrapeVars, valVars, hpVars, cacheVars, readyVars, exVars, filterVars, genericVars, clickVars, mainVars, purchVars>>

\* the loop is left with every attempt failed: the message is printed and the
\* function ends without a return or raise statement, so it returns None
FetchExhausted ==
    /\ fj_result = "running"
    /\ fj_attempt >= fj_retries
    /\ fj_result' = "None"
    /\ UNCHANGED <<fj_retries, fj_attempt, fj_responses, fj_waits, fj_returned>>
    /\ UNCHANGED <<detVars, nzVars, scrapeVars, valVars, hpVars, cacheVars, readyVars, exVars, filterVars, genericVars, clickVars, mainVars, purchVars>>


(***************************************************************************)
(* The product name filter of scraper_common.                              *)
(***************************************************************************)
MaxProducts == 2

NoKeywordCall == [called |-> FALSE, value |-> "", returned |-> <<>>]

NoFilterCall == [called |-> FALSE, value |-> "", products |-> <<>>, returned |-> <<>>]

\* module load: `_FILTER_KEYWORDS_CACHE = None`; the variable is unset
FilterIdle ==
    /\ env_filters = [set |-> FALSE, value |-> ""]
    /\ kw_cache = <<>>
    /\ kw_last = NoKeywordCall
    /\ fl_last = NoFilterCall

FilterValues == {"", "  ", "TCG,Trading", " Pokemon , ,ETB", "tcg", ",,"}

FilterInit ==
    /\ env_filters \in {[set |-> FALSE, value |-> ""]} \cup
                      {[set |-> TRUE, value |-> v] : v \in FilterValues}
    /\ kw_cache = <<>>
    /\ kw_last = NoKeywordCall
    /\ fl_last = NoFilterCall

\* Python s.split(sep) for a one-character sep
RECURSIVE Split(_, _)
Split(s, sep) ==
    LET at == Find(s, sep)
    IN  IF at = 0 THEN <<s>>
        ELSE <<SubSeq(s, 1, at - 1)>> \o Split(SubSeq(s, at + 1, Len(s)), sep)

\* os.environ.get("PRODUCT_NAME_FILTERS", "TCG,Trading")
environ_get(env) == IF env.set THEN env.value ELSE "TCG,Trading"

\* the parse of get_filter_keywords
parse_keywords(filter_keywords_str) ==
    IF Strip(filter_keywords_str) = "" THEN <<>>
    ELSE LET parts == Split(filter_keywords_str, ",")
             kept == SelectSeq(parts, LAMBDA kw : Strip(kw) # "")
         IN  [k \in 1..Len(kept) |-> lower(Strip(kept[k]))]

\* a cache that answers whatever string it was filled from
cache_hit_any_string(cache, filter_keywords_str) == cache # <<>>

\* `_FILTER_KEYWORDS_CACHE is not None and _FILTER_KEYWORDS_CACHE[0] == filter_keywords_str`
cache_hit(cache, filter_keywords_str) == cache # <<>> /\ cache[1] = filter_keywords_str

\* get_filter_keywords(): the list returned and the cache afterwards
get_filter_keywords(env, cache) ==
    LET filter_keywords_str == environ_get(env)
    IN  IF cache_hit(cache, filter_keywords_str)
        THEN [returned |-> cache[2], cache |-> cache]
        ELSE [returned |-> parse_keywords(filter_keywords_str),
              cache |-> <<filter_keywords_str, parse_keywords(filter_keywords_str)>>]

\* the environment variable is set to another value, or removed; a behaviour
\* ends with its call of filter_available_products
SetEnvironment ==
    /\ ~fl_last.called
    /\ \E v \in FilterValues : env_filters' = [set |-> TRUE, value |-> v]
    /\ env_filters' # env_filters
    /\ UNCHANGED <<kw_cache, kw_last, fl_last>>
    /\ UNCHANGED <<detVars, nzVars, scrapeVars, valVars, hpVars, cacheVars, readyVars, exVars, fetchVars, genericVars, clickVars, mainVars, purchVars>>

UnsetEnvironment ==
    /\ ~fl_last.called
    /\ env_filters.set
    /\ env_filters' = [set |-> FALSE, value |-> ""]
    /\ UNCHANGED <<kw_cache, kw_last, fl_last>>
    /\ UNCHANGED <<detVars, nzVars, scrapeVars, valVars, hpVars, cacheVars, readyVars, exVars, fetchVars, genericVars, clickVars, mainVars, purchVars>>

GetFilterKeywords ==
    /\ ~fl_last.called
    /\ LET g == get_filter_keywords(env_filters, kw_cache)
       IN  /\ kw_cache' = g.cache
           /\ kw_last' = [called |-> TRUE, value |-> environ_get(env_filters),
                          returned |-> g.returned]
    /\ UNCHANGED <<env_filters, fl_last>>
    /\ UNCHANGED <<detVars, nzVars, scrapeVars, valVars, hpVars, cacheVars, readyVars, exVars, fetchVars, genericVars, clickVars, mainVars, purchVars>>

ProductNames == {"Pokemon TCG Booster", "Trading cards", "Plush toy", ""}

CatalogProducts == [name : ProductNames, inStock : BOOLEAN]

ProductLists == UNION {[1..n -> CatalogProducts] : n \in 0..MaxProducts}

\* contains_filter_keywords(product_name) with the keywords it would get
contains_filter_keywords(product_name, keywords) ==
    IF product_name = "" THEN FALSE
    ELSE IF keywords = <<>> THEN TRUE
    ELSE AnyIn(keywords, lower(product_name))

\* filter_available_products(products); get_filter_keywords is reached, and
\* the cache filled, only for an in-stock product with a name
FilterAvailableProducts ==
    /\ ~fl_last.called
    /\ LET g == get_filter_keywords(env_filters, kw_cache)
       IN  \E items \in ProductLists :
              LET asked == \E i \in 1..Len(items) : items[i].inStock /\ items[i].name # ""
                  available == SelectSeq(items, LAMBDA p :
                                  p.inStock /\ contains_filter_keywords(p.name, g.returned))
              IN  /\ fl_last' = [called |-> TRUE, value |-> environ_get(env_filters),
                                 products |-> items, returned |-> available]
                  /\ kw_cache' = IF asked THEN g.cache ELSE kw_cache
    /\ UNCHANGED <<env_filters, kw_last>>
    /\ UNCHANGED <<detVars, nzVars, scrapeVars, valVars, hpVars, cacheVars, readyVars, exVars, fetchVars, genericVars, clickVars, mainVars, purchVars>>

(***************************************************************************)
(* SpecGeneric: ETBProductExtractor._find_generic_containers on a page of  *)
(* list items and nested divs.                                             *)
(***************************************************************************)
\* most elements of one tag a modelled page holds
MaxMatched == 7

\* elements[:30], the sample taken of a selector's matches
SampleSize == 30

\* scored_elements[:20], the elements returned at most
MaxTop == 20

generic_selectors ==
    << "div > div > div", "ul > li", "div[class]", "section > div", "div > div",
       "main > div", "div[id] > div" >>

product_patterns ==
    << "/product", "/item", "/shop", "/buy", "/p/", "/goods",
       "product=", "item=", "id=", "sku=", "/widget" >>

score_price_indicators == << "$", "€", "£", "usd", "eur", "price", "cost", ".99", ".95" >>

score_product_indicators == << "box", "pack", "card", "game", "toy", "collectible" >>

score_action_indicators == << "buy", "add", "cart", "purchase", "shop" >>

score_attr_terms == << "product", "item", "card", "listing" >>

GenericKinds == {"product_card", "nav_item", "price_chip", "late_link", "text_block", "detached"}

\* what the driver reports of an element of each kind; raises is whether
\* reading it raises (an element gone from the DOM)
GenericKindOf(kind) ==
    CASE kind = "product_card" ->
            [images |-> 2, hrefs |-> <<"https://shop.example/product/etb-1">>,
             text |-> "Elite Trainer Box $49.99 Add to cart", class |-> "product-card", id |-> "",
             width |-> 220, height |-> 320, raises |-> FALSE]
      [] kind = "nav_item" ->
            [images |-> 0, hrefs |-> <<"#">>, text |-> "Home", class |-> "nav", id |-> "",
             width |-> 80, height |-> 30, raises |-> FALSE]
      [] kind = "price_chip" ->
            [images |-> 0, hrefs |-> <<>>, text |-> " $9 ", class |-> "item", id |-> "",
             width |-> 120, height |-> 120, raises |-> FALSE]
      [] kind = "late_link" ->
            [images |-> 1,
             hrefs |-> <<"/about", "/help", "", "/product/etb-2">>,
             text |-> "More", class |-> "", id |-> "row",
             width |-> 101, height |-> 100, raises |-> FALSE]
      [] kind = "text_block" ->
            [images |-> 0, hrefs |-> <<>>, text |-> "Trading card game rules", class |-> "",
             id |-> "", width |-> 49, height |-> 400, raises |-> FALSE]
      [] kind = "detached" ->
            [images |-> 1, hrefs |-> <<"/product/etb-3">>, text |-> "Booster pack $4.99",
             class |-> "product", id |-> "", width |-> 200, height |-> 200, raises |-> TRUE]

\* the kinds of the elements of a page, repeated in this order
GenericPatterns ==
    { <<"product_card">>,
      <<"product_card", "nav_item">>,
      <<"nav_item", "price_chip", "detached">>,
      <<"text_block", "late_link", "product_card", "price_chip">>,
      <<"late_link", "text_block">>,
      <<"product_card", "product_card", "late_link">> }

\* the elements with one tag, in document order
ElementsOf(tag, n, pattern) ==
    [i \in 1..n |-> [tag |-> tag, pos |-> i, kind |-> pattern[((i - 1) % Len(pattern)) + 1]]]

\* driver.find_elements(By.CSS_SELECTOR, selector) on a page with n_li list
\* items and n_div triple nested divs
find_elements(selector, n_li, n_div, pattern) ==
    CASE selector = "ul > li" -> ElementsOf("li", n_li, pattern)
      [] selector \in {"div > div > div", "div > div"} -> ElementsOf("div", n_div, pattern)
      [] selector = "div[class]" ->
            SelectSeq(ElementsOf("div", n_div, pattern),
                      LAMBDA e : GenericKindOf(e.kind).class # "")
      [] OTHER -> <<>>

element_has_content(kind) ==
    LET e == GenericKindOf(kind)
    IN  IF e.raises THEN FALSE
        ELSE \/ Len(e.hrefs) > 0
             \/ e.images > 0
             \/ Len(Strip(e.text)) > 5

href_looks_like_product(href) ==
    /\ href # "" /\ href # "#"
    /\ AnyIn(product_patterns, lower(href))

\* a scorer looking for a product link among all the links of the element
has_product_link_anywhere(hrefs) ==
    \E k \in 1..Len(hrefs) : href_looks_like_product(hrefs[k])

\* for link in links[:3]
has_product_link(hrefs) ==
    \E k \in 1..Len(hrefs) : k <= 3 /\ href_looks_like_product(hrefs[k])

score_element_as_product(kind) ==
    LET e == GenericKindOf(kind)
        text == lower(e.text)
        attrs == lower(e.class \o " " \o e.id)
        score ==
            (IF e.images > 0 THEN 2 ELSE 0)
            + (IF e.images > 1 THEN 1 ELSE 0)
            + (IF Len(e.hrefs) > 0 THEN 1 ELSE 0)
            + (IF has_product_link(e.hrefs) THEN 2 ELSE 0)
            + (IF AnyIn(score_price_indicators, text) THEN 3 ELSE 0)
            + (IF AnyIn(score_product_indicators, text) THEN 2 ELSE 0)
            + (IF AnyIn(score_action_indicators, text) THEN 1 ELSE 0)
            + (IF AnyIn(score_attr_terms, attrs) THEN 3 ELSE 0)
            + (IF e.width > 100 /\ e.height > 100 THEN 1 ELSE 0)
            - (IF e.width < 50 \/ e.height < 50 THEN 2 ELSE 0)
    IN  IF e.raises \/ ~element_has_content(kind) THEN 0
        ELSE IF score > 0 THEN score ELSE 0

\* the score of each kind
ScoreOf == [kind \in GenericKinds |-> score_element_as_product(kind)]

\* a tier sampling a selector from five matches on
is_repetitive_from_five(elements) == Len(elements) >= 5

\* if len(elements) > 5
is_repetitive(elements) == Len(elements) > 5

\* the selectors whose matches are sampled
sampled_selectors(n_li, n_div, pattern) ==
    {k \in 1..Len(generic_selectors) :
        is_repetitive(find_elements(generic_selectors[k], n_li, n_div, pattern))}

\* the elements one selector adds to all_candidates
candidates_of(selector, n_li, n_div, pattern) ==
    LET elements == find_elements(selector, n_li, n_div, pattern)
        sample == SubSeq(elements, 1, IF Len(elements) < SampleSize THEN Len(elements)
                                      ELSE SampleSize)
        valid_elements == SelectSeq(sample, LAMBDA e : element_has_content(e.kind))
    IN  IF is_repetitive(elements) /\ Len(valid_elements) > 3 THEN valid_elements ELSE <<>>

RECURSIVE all_candidates_upto(_, _, _, _)
all_candidates_upto(k, n_li, n_div, pattern) ==
    IF k = 0 THEN <<>>
    ELSE all_candidates_upto(k - 1, n_li, n_div, pattern)
         \o candidates_of(generic_selectors[k], n_li, n_div, pattern)

\* list.sort(key=score, reverse=True) leaves elements of equal score in order
RECURSIVE sort_by_score(_)
sort_by_score(scored) ==
    IF scored = <<>> THEN <<>>
    ELSE LET rest == sort_by_score(SubSeq(scored, 1, Len(scored) - 1))
             x == scored[Len(scored)]
             ahead == SelectSeq(rest, LAMBDA y : ScoreOf[y.kind] >= ScoreOf[x.kind])
             behind == SelectSeq(rest, LAMBDA y : ScoreOf[y.kind] < ScoreOf[x.kind])
         IN  ahead \o <<x>> \o behind

generic_containers_of(n_li, n_div, pattern) ==
    LET all_candidates == all_candidates_upto(Len(generic_selectors), n_li, n_div, pattern)
        scored_elements == SelectSeq(all_candidates, LAMBDA e : ScoreOf[e.kind] > 0)
        sorted == sort_by_score(scored_elements)
    IN  SubSeq(sorted, 1, IF Len(sorted) < MaxTop THEN Len(sorted) ELSE MaxTop)

GenericIdle ==
    /\ gc_li = 0 /\ gc_div = 0 /\ gc_pattern = <<"nav_item">>
    /\ gc_sampled = {} /\ gc_result = <<>> /\ gc_done = FALSE

GenericInit ==
    /\ gc_li \in 0..MaxMatched
    /\ gc_div \in 0..MaxMatched
    /\ gc_pattern \in GenericPatterns
    /\ gc_sampled = {} /\ gc_result = <<>> /\ gc_done = FALSE

\* one call of _find_generic_containers
FindGenericContainers ==
    /\ ~gc_done
    /\ gc_done' = TRUE
    /\ gc_sampled' = sampled_selectors(gc_li, gc_div, gc_pattern)
    /\ gc_result' = generic_containers_of(gc_li, gc_div, gc_pattern)
    /\ UNCHANGED <<gc_li, gc_div, gc_pattern>>
    /\ UNCHANGED <<detVars, nzVars, scrapeVars, valVars, hpVars, cacheVars, readyVars, exVars, fetchVars, filterVars, clickVars, mainVars, purchVars>>

(***************************************************************************)
(* SpecClick: one call of ReCAPTCHAHandler._click_recaptcha_checkbox.      *)
(***************************************************************************)
ClickIdle ==
    /\ rc_tag = "div" /\ rc_pc = "idle" /\ rc_frame = "default"
    /\ rc_alive = TRUE /\ rc_calls = <<>> /\ rc_result = "not run"

\* the element found is the reCAPTCHA iframe or a checkbox of the main document
ClickInit ==
    /\ rc_tag \in {"iframe", "div"}
    /\ rc_pc = "tag_name" /\ rc_frame = "default"
    /\ rc_alive = TRUE /\ rc_calls = <<>> /\ rc_result = "not run"

\* a driver call is issued and control moves on; the environment is untouched
ClickGoes(call, next_pc) ==
    /\ rc_calls' = Append(rc_calls, call)
    /\ rc_pc' = next_pc

\* an except clause that returns without switching back
frame_after_except_kept(frame) == frame

\* self.driver.switch_to.default_content() in both except clauses
frame_after_except(frame) == "default"

\* element.tag_name == 'iframe'
ReadTagName ==
    /\ rc_pc = "tag_name"
    /\ \/ rc_alive /\ ClickGoes("tag_name", IF rc_tag = "iframe" THEN "switch_frame"
                                             ELSE "wait_clickable")
       \/ ClickGoes("tag_name", "except_exception")
    /\ UNCHANGED <<rc_tag, rc_frame, rc_alive, rc_result>>
    /\ UNCHANGED <<detVars, nzVars, scrapeVars, valVars, hpVars, cacheVars, readyVars, exVars, fetchVars, filterVars, genericVars, mainVars, purchVars>>

\* self.driver.switch_to.frame(element)
SwitchToFrame ==
    /\ rc_pc = "switch_frame"
    /\ \/ rc_alive /\ ClickGoes("frame", "wait_checkbox") /\ rc_frame' = "iframe"
       \/ ClickGoes("frame", "except_exception") /\ UNCHANGED rc_frame
    /\ UNCHANGED <<rc_tag, rc_alive, rc_result>>
    /\ UNCHANGED <<detVars, nzVars, scrapeVars, valVars, hpVars, cacheVars, readyVars, exVars, fetchVars, filterVars, genericVars, mainVars, purchVars>>

\* wait.until(element_to_be_clickable('.recaptcha-checkbox-border')), 10 s
WaitCheckbox ==
    /\ rc_pc = "wait_checkbox"
    /\ \/ rc_alive /\ ClickGoes("wait_checkbox", "wait_clickable")
       \/ rc_alive /\ ClickGoes("wait_checkbox", "find_anchor")
       \/ ClickGoes("wait_checkbox", "except_exception")
    /\ UNCHANGED <<rc_tag, rc_frame, rc_alive, rc_result>>
    /\ UNCHANGED <<detVars, nzVars, scrapeVars, valVars, hpVars, cacheVars, readyVars, exVars, fetchVars, filterVars, genericVars, mainVars, purchVars>>

\* find_element('#recaptcha-anchor') after the wait timed out
FindAnchor ==
    /\ rc_pc = "find_anchor"
    /\ \/ rc_alive /\ ClickGoes("find_anchor", "wait_clickable")
       \/ rc_alive /\ ClickGoes("find_anchor", "find_role")
       \/ ClickGoes("find_anchor", "except_exception")
    /\ UNCHANGED <<rc_tag, rc_frame, rc_alive, rc_result>>
    /\ UNCHANGED <<detVars, nzVars, scrapeVars, valVars, hpVars, cacheVars, readyVars, exVars, fetchVars, filterVars, genericVars, mainVars, purchVars>>

\* find_element('div[role="checkbox"]'); its NoSuchElementException is
\* caught by the outer except Exception
FindRoleCheckbox ==
    /\ rc_pc = "find_role"
    /\ \/ rc_alive /\ ClickGoes("find_role", "wait_clickable")
       \/ ClickGoes("find_role", "except_exception")
    /\ UNCHANGED <<rc_tag, rc_frame, rc_alive, rc_result>>
    /\ UNCHANGED <<detVars, nzVars, scrapeVars, valVars, hpVars, cacheVars, readyVars, exVars, fetchVars, filterVars, genericVars, mainVars, purchVars>>

\* wait.until(EC.element_to_be_clickable(element)), timeout s
WaitClickable ==
    /\ rc_pc = "wait_clickable"
    /\ \/ rc_alive /\ ClickGoes("wait_clickable", "scroll")
       \/ rc_alive /\ ClickGoes("wait_clickable", "except_timeout")
       \/ ClickGoes("wait_clickable", "except_exception")
    /\ UNCHANGED <<rc_tag, rc_frame, rc_alive, rc_result>>
    /\ UNCHANGED <<detVars, nzVars, scrapeVars, valVars, hpVars, cacheVars, readyVars, exVars, fetchVars, filterVars, genericVars, mainVars, purchVars>>

\* execute_script("arguments[0].scrollIntoView(true);")
ScrollIntoView ==
    /\ rc_pc = "scroll"
    /\ \/ rc_alive /\ ClickGoes("scroll", "click")
       \/ ClickGoes("scroll", "except_exception")
    /\ UNCHANGED <<rc_tag, rc_frame, rc_alive, rc_result>>
    /\ UNCHANGED <<detVars, nzVars, scrapeVars, valVars, hpVars, cacheVars, readyVars, exVars, fetchVars, filterVars, genericVars, mainVars, purchVars>>

\* clickable_element.click(); ElementClickInterceptedException leads to the
\* JavaScript click
ClickElement ==
    /\ rc_pc = "click"
    /\ \/ rc_alive /\ ClickGoes("click", "default_content")
       \/ rc_alive /\ ClickGoes("click", "js_click")
       \/ ClickGoes("click", "except_exception")
    /\ UNCHANGED <<rc_tag, rc_frame, rc_alive, rc_result>>
    /\ UNCHANGED <<detVars, nzVars, scrapeVars, valVars, hpVars, cacheVars, readyVars, exVars, fetchVars, filterVars, genericVars, mainVars, purchVars>>

\* execute_script("arguments[0].click();")
JsClick ==
    /\ rc_pc = "js_click"
    /\ \/ rc_alive /\ ClickGoes("js_click", "default_content")
       \/ ClickGoes("js_click", "except_exception")
    /\ UNCHANGED <<rc_tag, rc_frame, rc_alive, rc_result>>
    /\ UNCHANGED <<detVars, nzVars, scrapeVars, valVars, hpVars, cacheVars, readyVars, exVars, fetchVars, filterVars, genericVars, mainVars, purchVars>>

\* switch_to.default_content() at the end of the try block, then return True
SwitchBack ==
    /\ rc_pc = "default_content"
    /\ \/ /\ rc_alive
          /\ ClickGoes("default_content", "done")
          /\ rc_frame' = "default" /\ rc_result' = "True"
       \/ /\ ~rc_alive
          /\ ClickGoes("default_content", "except_exception")
          /\ UNCHANGED <<rc_frame, rc_result>>
    /\ UNCHANGED <<rc_tag, rc_alive>>
    /\ UNCHANGED <<detVars, nzVars, scrapeVars, valVars, hpVars, cacheVars, readyVars, exVars, fetchVars, filterVars, genericVars, mainVars, purchVars>>

\* an except clause: switch_to.default_content(), return False; with the
\* session gone the call raises out of the method
ExceptClause ==
    /\ \/ /\ rc_alive
          /\ ClickGoes("default_content", "done")
          /\ rc_frame' = frame_after_except(rc_frame) /\ rc_result' = "False"
       \/ /\ ~rc_alive
          /\ ClickGoes("default_content", "done")
          /\ rc_result' = "raised" /\ UNCHANGED rc_frame
    /\ UNCHANGED <<rc_tag, rc_alive>>
    /\ UNCHANGED <<detVars, nzVars, scrapeVars, valVars, hpVars, cacheVars, readyVars, exVars, fetchVars, filterVars, genericVars, mainVars, purchVars>>

\* except TimeoutException
ExceptTimeout == rc_pc = "except_timeout" /\ ExceptClause

\* except Exception
ExceptException == rc_pc = "except_exception" /\ ExceptClause

\* the browser session is lost while the method runs
SessionLost ==
    /\ rc_alive /\ rc_pc \notin {"idle", "done"}
    /\ rc_alive' = FALSE
    /\ UNCHANGED <<rc_tag, rc_pc, rc_frame, rc_calls, rc_result>>
    /\ UNCHANGED <<detVars, nzVars, scrapeVars, valVars, hpVars, cacheVars, readyVars, exVars, fetchVars, filterVars, genericVars, mainVars, purchVars>>

(***************************************************************************)
(* SpecMain: scraper_old.main, the scrape followed by the purchase loop.   *)
(***************************************************************************)
\* most products scrape_products reports available in a modelled run
MaxAvailable == 3

MainIdle ==
    /\ mn_pc = "idle" /\ mn_session = "none" /\ mn_checker = FALSE
    /\ mn_available = <<>> /\ mn_idx = 0 /\ mn_ops = <<>> /\ mn_purchases = <<>>

\* browser_scraper = BrowserScraper(): no driver, availability_checker None
MainInit ==
    /\ mn_pc = "setup" /\ mn_session = "none" /\ mn_checker = FALSE
    /\ mn_available = <<>> /\ mn_idx = 0 /\ mn_ops = <<>> /\ mn_purchases = <<>>

\* the dictionaries _check_products_availability can put in its result: only
\* products with a URL are checked, so every one carries a URL
AvailableDicts ==
    { [title |-> "Elite Trainer Box", url |-> "https://www.lazada.sg/products/etb"],
      [title |-> "Booster Bundle", url |-> "/products/bundle"],
      [title |-> "", url |-> "https://www.lazada.sg/products/tin"] }

RECURSIVE AvailableListsUpTo(_)
AvailableListsUpTo(n) ==
    IF n = 0 THEN {<<>>}
    ELSE AvailableListsUpTo(n - 1)
         \cup {Append(l, d) : l \in {m \in AvailableListsUpTo(n - 1) : Len(m) = n - 1},
                              d \in AvailableDicts}

\* scrape_products up to setup_driver: on success the driver is live and the
\* availability checker is built around it; on failure it returns []
MainSetupDriver ==
    /\ mn_pc = "setup"
    /\ \E success \in BOOLEAN :
          IF success
          THEN mn_session' = "live" /\ mn_checker' = TRUE /\ mn_pc' = "scrape"
          ELSE mn_pc' = "purchase" /\ UNCHANGED <<mn_session, mn_checker>>
    /\ UNCHANGED <<mn_available, mn_idx, mn_ops, mn_purchases>>
    /\ UNCHANGED <<detVars, nzVars, scrapeVars, valVars, hpVars, cacheVars, readyVars, exVars, fetchVars, filterVars, genericVars, clickVars, purchVars>>

\* finally: self.webdriver_manager.quit_driver()
session_after_scrape(state) == IF state = "live" THEN "quit" ELSE state

\* the rest of scrape_products: it returns the available products, or [] on
\* any failure, and its finally clause quits the driver
MainScrapeReturns ==
    /\ mn_pc = "scrape"
    /\ mn_available' \in AvailableListsUpTo(MaxAvailable)
    /\ mn_session' = session_after_scrape(mn_session)
    /\ mn_pc' = "purchase" /\ mn_idx' = 1
    /\ UNCHANGED <<mn_checker, mn_ops, mn_purchases>>
    /\ UNCHANGED <<detVars, nzVars, scrapeVars, valVars, hpVars, cacheVars, readyVars, exVars, fetchVars, filterVars, genericVars, clickVars, purchVars>>

\* AvailabilityChecker.click_buy_now_button navigates to the product page
\* unless the URL is invalid
buy_now_navigates(url) ==
    \/ Len(url) >= 4 /\ SubSeq(url, 1, 4) = "http"
    \/ Len(url) >= 1 /\ SubSeq(url, 1, 1) = "/"

\* one round of the purchase loop of main, entered only with available
\* products and an availability checker
MainPurchase ==
    /\ mn_pc = "purchase"
    /\ mn_available # <<>> /\ mn_checker
    /\ mn_idx \in 1..Len(mn_available)
    /\ LET product == mn_available[mn_idx]
           product_name == IF product.title = "" THEN "Unknown Product" ELSE product.title
       IN  IF product.url # ""
           THEN /\ mn_ops' = IF buy_now_navigates(product.url)
                             THEN Append(mn_ops, [url |-> product.url, session |-> mn_session])
                             ELSE mn_ops
                /\ \E success \in BOOLEAN :
                      /\ success => (mn_session = "live" /\ buy_now_navigates(product.url))
                      /\ mn_purchases' = Append(mn_purchases,
                                                [product |-> product_name, url |-> product.url,
                                                 purchase_success |-> success])
           ELSE UNCHANGED <<mn_ops, mn_purchases>>
    /\ mn_idx' = mn_idx + 1
    /\ UNCHANGED <<mn_pc, mn_session, mn_checker, mn_available>>
    /\ UNCHANGED <<detVars, nzVars, scrapeVars, valVars, hpVars, cacheVars, readyVars, exVars, fetchVars, filterVars, genericVars, clickVars, purchVars>>

\* after the loop: webdriver_manager.quit_driver(), then the notifications
MainCleanup ==
    /\ mn_pc = "purchase"
    /\ ~(mn_available # <<>> /\ mn_checker) \/ mn_idx > Len(mn_available)
    /\ mn_session' = (IF mn_session = "live" THEN "quit" ELSE mn_session)
    /\ mn_pc' = "done"
    /\ UNCHANGED <<mn_checker, mn_available, mn_idx, mn_ops, mn_purchases>>
    /\ UNCHANGED <<detVars, nzVars, scrapeVars, valVars, hpVars, cacheVars, readyVars, exVars, fetchVars, filterVars, genericVars, clickVars, purchVars>>

(***************************************************************************)
(* SpecPurchases: one call of selenium_automation.automate_purchases.      *)
(***************************************************************************)
\* most products handed to automate_purchases in a modelled call
MaxPurchases == 3

NoResults ==
    [selenium_available |-> FALSE, total_products |-> 0, attempted |-> 0, successful |-> 0,
     failed |-> 0, details |-> <<>>, error |-> ""]

PurchIdle ==
    /\ ap_products = <<>> /\ ap_pc = "idle" /\ ap_idx = 0 /\ ap_results = NoResults

\* the products handed over: with or without a name, with or without a URL
PurchaseDicts ==
    { [has_name |-> TRUE, name |-> "Elite Trainer Box", url |-> "https://www.lazada.sg/products/etb"],
      [has_name |-> TRUE, name |-> "Booster Bundle", url |-> ""],
      [has_name |-> FALSE, name |-> "", url |-> "https://www.lazada.sg/products/tin"] }

PurchInit ==
    /\ ap_products \in UNION {[1..n -> PurchaseDicts] : n \in 0..MaxPurchases}
    /\ ap_pc = "start" /\ ap_idx = 0 /\ ap_results = NoResults

\* the early returns of automate_purchases and the initial results
AutomateStart ==
    /\ ap_pc = "start"
    /\ \E selenium \in BOOLEAN, driver_ok \in BOOLEAN :
          IF ~selenium
          THEN /\ ap_results' = [NoResults EXCEPT !.total_products = Len(ap_products),
                                                  !.error = "Selenium not available"]
               /\ ap_pc' = "returned early" /\ UNCHANGED ap_idx
          ELSE IF ap_products = <<>>
          THEN /\ ap_results' = [NoResults EXCEPT !.selenium_available = TRUE]
               /\ ap_pc' = "returned early" /\ UNCHANGED ap_idx
          ELSE IF ~driver_ok
          THEN /\ ap_results' = [NoResults EXCEPT !.selenium_available = TRUE,
                                                  !.total_products = Len(ap_products),
                                                  !.failed = Len(ap_products),
                                                  !.error = "Failed to initialize WebDriver"]
               /\ ap_pc' = "returned early" /\ UNCHANGED ap_idx
          ELSE /\ ap_results' = [NoResults EXCEPT !.selenium_available = TRUE,
                                                  !.total_products = Len(ap_products)]
               /\ ap_pc' = "loop" /\ ap_idx' = 1
    /\ UNCHANGED ap_products
    /\ UNCHANGED <<detVars, nzVars, scrapeVars, valVars, hpVars, cacheVars, readyVars, exVars, fetchVars, filterVars, genericVars, clickVars, mainVars>>

\* a loop that skips a product without a URL without counting it
failed_after_skip_uncounted(failed) == failed

\* results["failed"] += 1 for a product without a URL
failed_after_skip(failed) == failed + 1

\* one product of the loop; success is what attempt_purchase returned
AutomateProduct ==
    /\ ap_pc = "loop" /\ ap_idx \in 1..Len(ap_products)
    /\ LET product == ap_products[ap_idx]
           product_name == IF product.has_name THEN product.name ELSE "Unknown Product"
           product_url == product.url
       IN  IF product_url = ""
           THEN ap_results' =
                    [ap_results EXCEPT
                        !.failed = failed_after_skip(@),
                        !.details = Append(@, [product |-> product_name, success |-> FALSE,
                                               reason |-> "No URL available"])]
           ELSE \E success \in BOOLEAN :
                  ap_results' =
                    IF success
                    THEN [ap_results EXCEPT
                            !.attempted = @ + 1,
                            !.successful = @ + 1,
                            !.details = Append(@, [product |-> product_name, success |-> TRUE,
                                                   url |-> product_url])]
                    ELSE [ap_results EXCEPT
                            !.attempted = @ + 1,
                            !.failed = @ + 1,
                            !.details = Append(@, [product |-> product_name, success |-> FALSE,
                                                   reason |-> "Purchase attempt failed",
                                                   url |-> product_url])]
    /\ ap_idx' = ap_idx + 1
    /\ UNCHANGED <<ap_products, ap_pc>>
    /\ UNCHANGED <<detVars, nzVars, scrapeVars, valVars, hpVars, cacheVars, readyVars, exVars, fetchVars, filterVars, genericVars, clickVars, mainVars>>

\* the loop is over: return results
AutomateReturn ==
    /\ ap_pc = "loop" /\ ap_idx > Len(ap_products)
    /\ ap_pc' = "returned"
    /\ UNCHANGED <<ap_products, ap_idx, ap_results>>
    /\ UNCHANGED <<detVars, nzVars, scrapeVars, valVars, hpVars, cacheVars, readyVars, exVars, fetchVars, filterVars, genericVars, clickVars, mainVars>>

vars == <<detVars, nzVars, scrapeVars, extraVars>>

ExtraIdle == ValIdle /\ HpIdle /\ CacheInit /\ PrIdle /\ ExIdle /\ FetchIdle /\ FilterIdle /\ GenericIdle /\ ClickIdle /\ MainIdle /\ PurchIdle

InitDetect == DetInit /\ NzIdle /\ ScrapeIdle /\ ExtraIdle
NextDetect == Detect /\ UNCHANGED <<nzVars, scrapeVars, extraVars>>
SpecDetect == InitDetect /\ [][NextDetect]_vars

InitNormalize == NzInit /\ DetIdle /\ ScrapeIdle /\ ExtraIdle
NextNormalize ==
    (\E u \in NzUrls : NormalizeUrl(u)) /\ UNCHANGED <<detVars, scrapeVars, extraVars>>
SpecNormalize == InitNormalize /\ [][NextNormalize]_vars

InitValidate == ValInit /\ DetIdle /\ NzIdle /\ ScrapeIdle /\ HpIdle /\ CacheInit /\ PrIdle
        /\ PurchIdle
        /\ MainIdle
        /\ ClickIdle
        /\ GenericIdle
        /\ FilterIdle
        /\ ExIdle /\ FetchIdle
NextValidate == ValidatePage
SpecValidate == InitValidate /\ [][NextValidate]_vars

InitHealth == HpInit /\ DetIdle /\ NzIdle /\ ScrapeIdle /\ ValIdle /\ CacheInit /\ PrIdle
        /\ PurchIdle
        /\ MainIdle
        /\ ClickIdle
        /\ GenericIdle
        /\ FilterIdle
        /\ ExIdle /\ FetchIdle
NextHealth == CheckPageHealth
SpecHealth == InitHealth /\ [][NextHealth]_vars

InitDriverCache == CacheInit /\ DetIdle /\ NzIdle /\ ScrapeIdle /\ ValIdle /\ HpIdle /\ PurchIdle
        /\ ClickIdle /\ MainIdle
        /\ FilterIdle /\ GenericIdle
        /\ PrIdle /\ ExIdle /\ FetchIdle
NextDriverCache == GetOrCreateDriver \/ CleanupDriver \/ DriverDies
SpecDriverCache == InitDriverCache /\ [][NextDriverCache]_vars

InitPageReady == PrInit /\ DetIdle /\ NzIdle /\ ScrapeIdle /\ ValIdle /\ HpIdle /\ PurchIdle
        /\ ClickIdle /\ MainIdle
        /\ FilterIdle /\ GenericIdle
        /\ CacheInit /\ ExIdle /\ FetchIdle
NextPageReady == WaitForPageReady
SpecPageReady == InitPageReady /\ [][NextPageReady]_vars

InitExtract ==
    ExInit /\ DetIdle /\ NzIdle /\ ScrapeIdle /\ ValIdle /\ HpIdle /\ CacheInit /\ PrIdle
        /\ PurchIdle
        /\ MainIdle
        /\ ClickIdle
        /\ GenericIdle
        /\ FilterIdle
        /\ FetchIdle
NextExtract == RunExtractor \/ Tick
SpecExtract == InitExtract /\ [][NextExtract]_vars

InitFetch ==
    FetchInit /\ DetIdle /\ NzIdle /\ ScrapeIdle /\ FilterIdle /\ GenericIdle /\ ClickIdle
        /\ PurchIdle
        /\ MainIdle
       /\ ValIdle /\ HpIdle /\ CacheInit /\ PrIdle /\ ExIdle
NextFetch == FetchAttempt \/ FetchExhausted
SpecFetch == InitFetch /\ [][NextFetch]_vars

InitFilter ==
    FilterInit /\ DetIdle /\ NzIdle /\ ScrapeIdle /\ GenericIdle /\ ClickIdle /\ MainIdle
        /\ PurchIdle
       /\ ValIdle /\ HpIdle /\ CacheInit /\ PrIdle /\ ExIdle /\ FetchIdle
NextFilter == SetEnvironment \/ UnsetEnvironment \/ GetFilterKeywords \/ FilterAvailableProducts
SpecFilter == InitFilter /\ [][NextFilter]_vars

InitGeneric ==
    GenericInit /\ DetIdle /\ NzIdle /\ ScrapeIdle /\ ClickIdle /\ MainIdle /\ PurchIdle
       /\ ValIdle /\ HpIdle /\ CacheInit /\ PrIdle /\ ExIdle /\ FetchIdle /\ FilterIdle
NextGeneric == FindGenericContainers
SpecGeneric == InitGeneric /\ [][NextGeneric]_vars

InitClick ==
    ClickInit /\ DetIdle /\ NzIdle /\ ScrapeIdle /\ MainIdle /\ PurchIdle
       /\ ValIdle /\ HpIdle /\ CacheInit /\ PrIdle /\ ExIdle /\ FetchIdle /\ FilterIdle /\ GenericIdle
NextClick == ReadTagName \/ SwitchToFrame \/ WaitCheckbox \/ FindAnchor \/ FindRoleCheckbox
    \/ WaitClickable \/ ScrollIntoView \/ ClickElement \/ JsClick \/ SwitchBack
    \/ ExceptTimeout \/ ExceptException \/ SessionLost
SpecClick == InitClick /\ [][NextClick]_vars

InitMain ==
    MainInit /\ DetIdle /\ NzIdle /\ ScrapeIdle /\ PurchIdle
       /\ ValIdle /\ HpIdle /\ CacheInit /\ PrIdle /\ ExIdle /\ FetchIdle /\ FilterIdle /\ GenericIdle /\ ClickIdle
NextMain == MainSetupDriver \/ MainScrapeReturns \/ MainPurchase \/ MainCleanup
SpecMain == InitMain /\ [][NextMain]_vars

InitPurchases ==
    PurchInit /\ DetIdle /\ NzIdle /\ ScrapeIdle
       /\ ValIdle /\ HpIdle /\ CacheInit /\ PrIdle /\ ExIdle /\ FetchIdle /\ FilterIdle /\ GenericIdle /\ ClickIdle /\ MainIdle
NextPurchases == AutomateStart \/ AutomateProduct \/ AutomateReturn
SpecPurchases == InitPurchases /\ [][NextPurchases]_vars

(***************************************************************************)
(* Spec: one run of scrape_products.                                       *)
(***************************************************************************)
Init == ScrapeInit /\ DetIdle /\ NzIdle /\ ExtraIdle

Next ==
    \/ SetupDriver
    \/ Navigate
    \/ CheckHealth
    \/ retry_progressive_delay
    \/ retry_clear_cookies_enhanced
    \/ retry_human_behavior
    \/ retry_wait_and_reload
    \/ retry_random_delay
    \/ CascadeFailed
    \/ RecheckHealth
    \/ etb_product_selectors
    \/ find_elements_by_price
    \/ find_elements_by_patterns
    \/ find_generic_containers
    \/ advanced_dom_analysis
    \/ debug_page_structure
    \/ find_dynamic_content
    \/ NoProductsFound
    \/ ExtractProduct
    \/ ReturnProducts
    \/ Finally
    \/ browser_setup_driver
    \/ browser_navigate
    \/ browser_wait_for_page_ready
    \/ try_product_selectors
    \/ try_price_selector_fallback
    \/ browser_extract_product
    \/ browser_products_extracted
    \/ check_products_availability
    \/ browser_return_available
    \/ browser_finally

Spec == Init /\ [][Next]_vars

(***************************************************************************)
(* Properties of the detector.                                             *)
(***************************************************************************)
\* What the source assigns to each vendor's check: the inputs it searches.
SearchesTitle(v) == v \in {"Cloudflare", "Generic Anti-bot"}

SigIn(v, text_lower) == \E s \in Range(SignaturesOf(v)) : Contains(text_lower, s)

\* vendors (by priority index) with a signature in the given lower-cased text
VendorsIn(text_lower) == {i \in 1..Len(Vendors) : SigIn(Vendors[i], text_lower)}

\* vendors (by priority index) whose check finds one of its signatures
MatchedVendors ==
    LET inSource == VendorsIn(lower(det_source))
        inTitle  == VendorsIn(lower(det_title))
    IN  inSource \cup {i \in inTitle : SearchesTitle(Vendors[i])}

Earliest(S) == CHOOSE i \in S : \A j \in S : i <= j

\* C3: the vendors are checked in the order Incapsula, Cloudflare, DataDome,
\* PerimeterX, Generic Anti-bot and the first one whose check matches is
\* returned; a page that matches several vendors is attributed to the earliest
\* of them, and a page that matches none is reported (False, "").
C3_PriorityOrder ==
    det_result # NotRun =>
        LET m == MatchedVendors
        IN  IF m = {}
            THEN det_result = <<FALSE, "">>
            ELSE det_result = <<TRUE, Vendors[Earliest(m)]>>

\* a page whose source carries the marks of two vendors was classified
C3_Witness ==
    /\ det_result # NotRun
    /\ det_result[1]
    /\ Cardinality(VendorsIn(lower(det_source))) >= 2

OwnersOf(sig) == {i \in 1..Len(Vendors) : sig \in Range(SignaturesOf(Vendors[i]))}

\* C4: a page whose source is one signature literal alone (title empty) is
\* attributed to the vendor that owns the literal; every literal has exactly
\* one owner and contains no literal of a vendor checked earlier.
C4_NoCrossMatch ==
    (det_result # NotRun /\ det_title = "" /\ lower(det_source) \in AllSignatures) =>
        LET lit   == lower(det_source)
            owner == Earliest(OwnersOf(lit))
        IN  /\ Cardinality(OwnersOf(lit)) = 1
            /\ det_result = <<TRUE, Vendors[owner]>>
            /\ \A i \in 1..Len(Vendors) : i < owner => ~SigIn(Vendors[i], lit)

\* the DataDome literal "dd_captcha", which contains the generic literal
\* "captcha", was classified on its own
C4_Witness ==
    /\ det_result # NotRun
    /\ det_title = ""
    /\ det_source = "dd_captcha"

\* C5 as stated: a signature that occurs only in the title (the source
\* matching nothing) makes the detector report the earliest vendor that owns
\* a signature found in the title.
C5_TitleSearchedForEveryVendor ==
    det_result # NotRun =>
        LET inTitle == VendorsIn(lower(det_title))
        IN  (VendorsIn(lower(det_source)) = {} /\ inTitle # {}) =>
                det_result = <<TRUE, Vendors[Earliest(inTitle)]>>

(***************************************************************************)
(* Properties of the retry cascade.                                        *)
(***************************************************************************)
FixedStrategyOrder ==
    << "retry_progressive_delay", "retry_clear_cookies_enhanced", "retry_human_behavior",
       "retry_wait_and_reload", "retry_random_delay" >>

\* C1: the strategies are invoked in the order progressive delay, cookie/cache
\* reset, human-behaviour simulation, long wait + reload, random delay +
\* reload, each at most once, and the cascade stops at the first that reports
\* the page unblocked: when strategy k is the first to succeed exactly
\* strategies 1..k were invoked, and the cascade reports success exactly then.
C1_CascadeOrder ==
    /\ Len(invoked) <= Len(FixedStrategyOrder)
    /\ \A i \in 1..Len(invoked) : invoked[i].name = FixedStrategyOrder[i]
    /\ \A i \in 1..(Len(invoked) - 1) : invoked[i].outcome # "unblocked"
    /\ retry_success = "True" <=>
          (invoked # <<>> /\ invoked[Len(invoked)].outcome = "unblocked")
    /\ (pc = "done" /\ invoked # <<>>) => retry_success \in {"True", "False"}

\* the third strategy was the first to succeed and the run went on to its end
C1_Witness ==
    /\ pc = "done"
    /\ retry_success = "True"
    /\ Len(invoked) = 3
    /\ invoked[3].outcome = "unblocked"

\* C2: when every strategy reported the page blocked or raised, each of the
\* five was invoked exactly once, _handle_protection_retry returned False, and
\* scrape_products returns [] without a second cascade and without starting
\* product discovery.
C2_ExhaustedCascade ==
    retry_success = "False" =>
        /\ [i \in 1..Len(invoked) |-> invoked[i].name] = FixedStrategyOrder
        /\ \A i \in 1..Len(invoked) : invoked[i].outcome \in {"blocked", "error"}
        /\ cascades = 1
        /\ tier_log = <<>>
        /\ product_elements = NotRun
        /\ pc \in {"return_empty", "finally", "done"}
        /\ pc \in {"finally", "done"} => result = <<>>

\* the run ended after a cascade in which a strategy raised and the others
\* reported the page blocked
C2_Witness ==
    /\ pc = "done"
    /\ retry_success = "False"
    /\ \E i \in 1..Len(invoked) : invoked[i].outcome = "error"
    /\ \E i \in 1..Len(invoked) : invoked[i].outcome = "blocked"

(***************************************************************************)
(* Properties of the discovery cascade.                                    *)
(***************************************************************************)
\* the tier functions each extractor calls, in the order of its code
TierOrder ==
    IF scraper = "browser" THEN << "exact_selector", "price" >>
    ELSE << "exact_selector", "price", "patterns", "generic", "advanced_dom", "dynamic" >>

FiveTierOrder == << "exact_selector", "price", "patterns", "generic", "dynamic" >>

ExtractedTitle ==
    [sc \in {"intl", "browser"}, e \in Elements |->
        IF sc = "intl" THEN etb_extract_title(e)
        ELSE IF ElementDom(e).stale THEN "" ELSE pe_extract_title(e)]

TitleOf(product) == IF scraper = "intl" THEN product.name ELSE product.title

\* C7: the batch holds one product for each handled element whose extracted
\* title is non-empty, in element order and under that title, and none for an
\* element whose extracted title is empty: every product of the batch has a
\* non-empty title, and an element with a title is kept whatever its image,
\* URL or price.
C7_OnlyTitledProducts ==
    scraper \in {"intl", "browser"} =>
        /\ \A i \in 1..Len(products) : TitleOf(products[i]) # ""
        /\ [i \in 1..Len(products) |-> TitleOf(products[i])] =
              SelectSeq([i \in 1..elem_idx |-> ExtractedTitle[scraper, product_elements[i]]],
                        LAMBDA t : t # "")

\* an element with a title and nothing else was kept, and an element with
\* image, URL and price but no title was dropped
C7_Witness ==
    /\ scraper = "intl"
    /\ pc = "done"
    /\ product_elements = <<"bare", "untitled">>
    /\ Len(result) = 1
    /\ result[1].name = "Booster Bundle"
    /\ result[1].image = "" /\ result[1].url = "" /\ result[1].price = "None"
    /\ etb_product("untitled").image # "" /\ etb_product("untitled").url # ""

(***************************************************************************)
(* Properties of the availability verdict.                                 *)
(***************************************************************************)
\* whether a member of the buy-indicator list occurs in the lower-cased source
HasBuyIndicator ==
    [id \in ProductPageIds |->
        \E k \in 1..Len(BUY_INDICATORS) : Contains(lower(ProductPageOf(id).source), BUY_INDICATORS[k])]

\* C9: after validation passed, check_product_availability reports available
\* exactly when a buy indicator occurs in the lower-cased page source, and
\* returns the same for every state of the page's quantity control.
C9_IndicatorDecides ==
    last_check.validated =>
        /\ last_check.returned[1] = HasBuyIndicator[last_check.page]
        /\ \A qty \in QtyStates : PageVerdict[last_check.page, qty] = last_check.returned

\* a validated page with a buy indicator and a disabled quantity control was
\* reported available
C9_Witness ==
    /\ last_check.validated
    /\ last_check.qty \in {"disabled", "readonly"}
    /\ HasBuyIndicator[last_check.page]
    /\ last_check.returned[1] = TRUE

\* whether the literal 'buy now' occurs in the lower-cased source
HasBuyNow ==
    [id \in ProductPageIds |-> Contains(lower(ProductPageOf(id).source), "buy now")]

\* C10: a validated product page is reported available only if its
\* lower-cased source contains the literal 'buy now' (the only buy indicator),
\* so a page saying 'Out of stock' without 'buy now' is reported not available.
C10_OnlyBuyNow ==
    last_check.validated =>
        (last_check.returned[1] => HasBuyNow[last_check.page])

(***************************************************************************)
(* Properties of the screenshots.                                          *)
(***************************************************************************)
\* C11: a check of a valid URL whose navigation returned called driver.get,
\* then took the 'product_page' screenshot, then ran validation; after a
\* failed validation it took exactly one more screenshot,
\* 'product_page_failed', and returned (False, 'Page failed to load
\* correctly', None) with no price extraction and no indicator check; after a
\* passed validation that one screenshot is the only one.
C11_ScreenshotsAroundValidation ==
    (last_check.returned # <<>> /\ last_check.page # "blank") =>
        /\ SubSeq(last_check.calls, 1, 3) = <<"driver.get", "product_page", "wait_for_page_ready">>
        /\ ~last_check.validated =>
              /\ last_check.calls = <<"driver.get", "product_page", "wait_for_page_ready",
                                      "product_page_failed">>
              /\ last_check.returned = <<FALSE, "Page failed to load correctly", "None">>
        /\ last_check.validated =>
              /\ Len(SelectSeq(last_check.calls,
                               LAMBDA c : c \in {"product_page", "product_page_failed"})) = 1
              /\ last_check.calls[Len(last_check.calls)] = "check_availability_indicators"

\* a product page failed validation during a run, and the run's screenshots
\* end with the pair taken for it
C11_Witness ==
    /\ last_check.page \in ProductPageIds
    /\ ~last_check.validated
    /\ Len(screenshots) >= 3
    /\ SubSeq(screenshots, Len(screenshots) - 1, Len(screenshots)) =
          <<"product_page", "product_page_failed">>

\* C12: when validation of the listing page failed, the run returns [] and
\* has taken exactly the screenshots 'product_listing_page' (before the
\* validation) and 'product_listing_page_failed' (after it), in this order.
C12_ListingFailureScreenshots ==
    (scraper = "browser" /\ listing_ready = "False" /\ pc \in {"finally", "done"}) =>
        /\ result = <<>>
        /\ screenshots = <<"product_listing_page", "product_listing_page_failed">>

(***************************************************************************)
(* Properties of the page validation.                                      *)
(***************************************************************************)
\* lower-cased source of each page
LowerSource == [id \in AllPageIds \cup ValidationPageIds |-> lower(Shown(id).source)]

\* whether a critical-error literal occurs in the lower-cased source
CriticalIn ==
    [id \in DOMAIN LowerSource |->
        \E k \in 1..Len(CRITICAL_ERROR_INDICATORS) :
            Contains(LowerSource[id], CRITICAL_ERROR_INDICATORS[k])]

\* whether an ambiguous-error phrase occurs in the title or in error markup
AmbiguousIn ==
    [id \in DOMAIN LowerSource |->
        \E phrase \in {"error occurred", "something went wrong", "try again later"} :
            \/ Contains(lower(Shown(id).title), phrase)
            \/ \E open \in {"<h1>", "<h2>", "<h3>", "<div class=\"error\">", "<div class=\"message\">",
                            "<p class=\"error\">", "<span class=\"error\">"} :
                  /\ Contains(LowerSource[id], open \o phrase)
                  /\ open \in {"<h1>", "<h2>", "<h3>"} =>
                        Contains(LowerSource[id], open \o phrase \o "</" \o SubSeq(open, 2, 4))]

\* whether a product-page indicator occurs in the lower-cased source
IndicatorIn ==
    [id \in DOMAIN LowerSource |->
        \E k \in 1..Len(PRODUCT_PAGE_INDICATORS) :
            Contains(LowerSource[id], PRODUCT_PAGE_INDICATORS[k])]

\* C13: with no reCAPTCHA detected, validate_page_loaded returns True exactly
\* when the current URL is neither empty nor 'data:,', the stripped source has
\* at least 50 characters, no critical-error literal occurs in the lower-cased
\* source, no ambiguous-error phrase occurs in the title or in an error-markup
\* context, and a product-page indicator occurs; an exception gives False.
C13_ValidationConditions ==
    (val_result # "not run" /\ val_recaptcha = "none") =>
        /\ val_raises => val_result = "False"
        /\ ~val_raises =>
              (val_result = "True" <=>
                  /\ val_url # "" /\ val_url # "data:,"
                  /\ Len(Strip(Shown(val_page).source)) >= 50
                  /\ ~CriticalIn[val_page]
                  /\ ~AmbiguousIn[val_page]
                  /\ IndicatorIn[val_page])

\* a page with an ambiguous-error phrase in plain body text passed validation
C13_Witness ==
    /\ val_result = "True"
    /\ val_recaptcha = "none"
    /\ val_page = "bare_phrase"
    /\ Contains(LowerSource[val_page], "something went wrong")

(***************************************************************************)
(* Properties of the page health check.                                    *)
(***************************************************************************)
\* positions, in priority order, of the vendors with a signature in the source
SourceVendors(page_source) ==
    {i \in 1..Len(Vendors) : AnyIn(SignaturesOf(Vendors[i]), lower(page_source))}

\* whether any vendor's signature occurs in the title
TitleMarked(page_title) ==
    \E i \in 1..Len(Vendors) : AnyIn(SignaturesOf(Vendors[i]), lower(page_title))

\* C14: a page whose source contains a protection-vendor signature is reported
\* unhealthy with the message 'Blocked by <vendor> protection', whatever its
\* size, title or HTML structure; the vendor is the first in priority order
\* whose signature the source contains when the title carries no signature.
C14_ProtectionReportedFirst ==
    (hp_result # <<>> /\ hp_read_ok /\ SourceVendors(hp_source) # {}) =>
        /\ hp_result[1] = FALSE
        /\ \E i \in 1..Len(Vendors) :
              /\ hp_result[2] = "Blocked by " \o Vendors[i] \o " protection"
              /\ ~TitleMarked(hp_title) =>
                    /\ i \in SourceVendors(hp_source)
                    /\ \A j \in SourceVendors(hp_source) : i <= j

\* a short bare fragment without title that carries the Incapsula mark was
\* reported as blocked by Incapsula
C14_Witness ==
    /\ hp_result = <<FALSE, "Blocked by Incapsula protection">>
    /\ hp_source = "Incapsula incident id 12345"
    /\ hp_title = ""
    /\ Len(hp_source) < MinHealthyLength

(***************************************************************************)
(* Properties of the availability loop.                                    *)
(***************************************************************************)
\* the products the loop has handled so far
Handled == SubSeq(products, 1, avail_idx)

UrlsOf(ps) == [i \in 1..Len(ps) |-> ps[i].url]

\* C15: the loop handles the products in list order; it calls the availability
\* check once for each product with a URL and not for a product without one;
\* a check that raised leaves an error status with is_available false and the
\* loop goes on to the later products; the list returned is exactly the
\* products found available, in input order.
C15_OneCheckPerProduct ==
    (scraper = "browser" /\ pc \in {"availability", "finally", "done"}) =>
        /\ check_log = SelectSeq(UrlsOf(Handled), LAMBDA u : u # "")
        /\ \A i \in 1..avail_idx :
              /\ products[i].url = "" =>
                    /\ products[i].availability_status = "No URL available"
                    /\ ~products[i].is_available
              /\ StartsWith(products[i].availability_status, "Error") => ~products[i].is_available
        /\ available_products = SelectSeq(Handled, LAMBDA q : q.is_available)
        /\ pc \in {"finally", "done"} =>
              /\ avail_idx = Len(products)
              /\ result = available_products

\* the check of the first product raised, the second product was still checked
\* and found available, and it alone was returned
C15_Witness ==
    /\ scraper = "browser" /\ pc = "done"
    /\ Len(products) = 2 /\ Len(check_log) = 2
    /\ StartsWith(products[1].availability_status, "Error")
    /\ products[2].is_available
    /\ result = <<products[2]>>

(***************************************************************************)
(* Properties of the driver's lifetime.                                    *)
(***************************************************************************)
\* C16: once a driver was created, it is quit exactly once before
\* scrape_products returns, whatever path the run takes, and the manager holds
\* no driver afterwards, even when the quit call raised; until the finally
\* clause the driver is live and has not been quit.
C16_DriverQuitOnce ==
    /\ session = "none" => quits = 0 /\ driver = "none"
    /\ (session # "none" /\ pc # "done") => quits = 0 /\ driver = "live" /\ session = "open"
    /\ (session # "none" /\ pc = "done") =>
          quits = 1 /\ driver = "none" /\ session \in {"closed", "quit failed"}

\* a run that found no products ended with a quit call that raised
C16_Witness ==
    /\ pc = "done" /\ session = "quit failed"
    /\ quits = 1 /\ driver = "none"
    /\ page # "blank" /\ result = <<>>

(***************************************************************************)
(* Properties of the reusable driver.                                      *)
(***************************************************************************)
\* C17: get_or_create_driver(force_new=False) returns the cached driver when
\* it is still alive; when the cached driver is dead or absent it stores and
\* returns what setup_chrome_driver gives, a new live driver or None when the
\* setup fails; it never returns a driver it found dead; after cleanup_driver
\* the cache is empty.
C17_CacheSelfHeals ==
    /\ (last_call.op = "get" /\ ~last_call.force_new) =>
          /\ global_driver = last_call.returned
          /\ (last_call.before # 0 /\ last_call.before_alive) =>
                last_call.returned = last_call.before
          /\ ~(last_call.before # 0 /\ last_call.before_alive) =>
                IF last_call.setup_ok
                THEN /\ last_call.returned = made
                     /\ last_call.returned # 0
                     /\ last_call.returned # last_call.before
                ELSE last_call.returned = 0
          /\ (last_call.before # 0 /\ ~last_call.before_alive) =>
                last_call.returned # last_call.before
    /\ last_call.op = "cleanup" => global_driver = 0

\* the cached driver was found dead and a new driver replaced it
C17_Witness ==
    /\ last_call.op = "get" /\ ~last_call.force_new
    /\ last_call.before # 0 /\ ~last_call.before_alive
    /\ last_call.returned = made /\ made = last_call.before + 1
    /\ global_driver \in alive

(***************************************************************************)
(* Properties of the content stability wait.                               *)
(***************************************************************************)
\* position of the first poll that repeats the non-zero size of the poll
\* before it, 0 if there is none
FirstRepeat(sizes) ==
    IF \E k \in 2..Len(sizes) : sizes[k] = sizes[k - 1] /\ sizes[k] > 0
    THEN CHOOSE k \in 2..Len(sizes) :
            /\ sizes[k] = sizes[k - 1] /\ sizes[k] > 0
            /\ \A j \in 2..(k - 1) : ~(sizes[j] = sizes[j - 1] /\ sizes[j] > 0)
    ELSE 0

\* C18: after the load-complete signal the content size is polled at most 3
\* times; the content is declared stable as soon as two consecutive polls
\* report the same non-zero size, and polling stops at that poll; otherwise
\* the call proceeds to validation all the same, so the result is that of the
\* validation either way; without the load-complete signal the result is False.
C18_StableAfterTwoEqualPolls ==
    pr_out # NotPolled =>
        /\ ~pr_ready => pr_out.result = "False" /\ pr_out.polls = 0
        /\ pr_ready =>
              /\ pr_out.polls <= max_stability_checks
              /\ pr_out.result = (IF PageValid[pr_page] THEN "True" ELSE "False")
              /\ IF FirstRepeat(pr_sizes) # 0
                 THEN pr_out.stable = "True" /\ pr_out.polls = FirstRepeat(pr_sizes)
                 ELSE pr_out.stable = "False" /\ pr_out.polls = max_stability_checks

(***************************************************************************)
(* Properties of the health gate before discovery.                         *)
(***************************************************************************)
\* product discovery has been reached in a run of the international scraper
DiscoveryReached == scraper = "intl" /\ (pc = "discover" \/ tier_log # <<>>)

\* C19 as stated: every kind of health failure triggers the retry cascade, and
\* discovery is never started on a page whose last health check was unhealthy.
C19_EveryFailureRetries ==
    DiscoveryReached => (health # NotRun /\ health[1] = TRUE)

\* C19 amended: the retry cascade runs exactly for a page reported as 'Blocked
\* by <vendor> protection', and discovery follows a cascade only when one of
\* its strategies succeeded; a page that is unhealthy for another reason (too
\* small, empty title, missing tags, failed health check) goes on to discovery
\* without any retry.
C19_OnlyProtectionRetries ==
    scraper = "intl" =>
        /\ (cascades > 0 /\ retry_success = "not run") =>
              /\ health # NotRun
              /\ ~health[1] /\ Contains(health[2], "Blocked by")
        /\ (DiscoveryReached /\ cascades = 0) =>
              /\ health # NotRun
              /\ ~(~health[1] /\ Contains(health[2], "Blocked by"))
        /\ (DiscoveryReached /\ cascades > 0) => retry_success = "True"
        /\ cascades <= 1

\* discovery ran on a page reported too small, without any retry
C19_Witness ==
    /\ scraper = "intl" /\ tier_log # <<>>
    /\ cascades = 0 /\ invoked = <<>>
    /\ health # NotRun
    /\ ~health[1] /\ Contains(health[2], "Page content too small")

(***************************************************************************)
(* Properties of repeated extraction.                                      *)
(***************************************************************************)
TimestampFields == {"scraped_at", "extracted_at"}

\* C20 as stated: two runs of the field extractor on the same unchanged
\* element return products with identical data in every field.
C20_IdenticalInEveryField ==
    Len(ex_out) = 2 => ex_out[1].returned = ex_out[2].returned

\* C20 amended: two runs of the field extractor on the same unchanged element
\* both return nothing or both return a product, the two products agree in
\* every field other than the timestamp (scraped_at, extracted_at), and the
\* timestamps are equal only when the clock read the same at the two calls.
C20_IdenticalButTimestamp ==
    Len(ex_out) = 2 =>
        LET first == ex_out[1].returned
            second == ex_out[2].returned
        IN  /\ Len(first) = Len(second)
            /\ first # <<>> =>
                  /\ DOMAIN first[1] = DOMAIN second[1]
                  /\ \A field \in DOMAIN first[1] \ TimestampFields :
                        first[1][field] = second[1][field]
                  /\ \A field \in DOMAIN first[1] \cap TimestampFields :
                        (first[1][field] = second[1][field])
                            <=> (ex_out[1].called_at = ex_out[2].called_at)

\* the card was extracted twice, at different times, into products that
\* differ in their timestamp and carry the same price text
C20_Witness ==
    /\ Len(ex_out) = 2
    /\ ex_extractor = "etb" /\ ex_elem = "card"
    /\ ex_out[1].returned # <<>> /\ ex_out[2].returned # <<>>
    /\ ex_out[1].returned[1].extracted_at # ex_out[2].returned[1].extracted_at
    /\ ex_out[1].returned[1].priceShow = "49.9"
    /\ ex_out[2].returned[1].priceShow = "49.9"

(***************************************************************************)
(* Properties of fetch_json.                                               *)
(***************************************************************************)
\* C21: fetch_json makes at most `retries` requests; it returns (payload, raw
\* text) from the first attempt whose response has status 200 and parses as
\* JSON; when all `retries` attempts have failed it raises RuntimeError, so
\* the caller never receives a value that is not a pair.
C21_RaisesWhenExhausted ==
    fj_result # "running" =>
        /\ Len(fj_responses) <= fj_retries
        /\ fj_result \in {"tuple", "RuntimeError"}
        /\ fj_result = "tuple" =>
              /\ Len(fj_returned) = 2
              /\ AttemptSucceeds(fj_responses[Len(fj_responses)])
              /\ \A k \in 1..(Len(fj_responses) - 1) : ~AttemptSucceeds(fj_responses[k])
        /\ (\A k \in 1..Len(fj_responses) : ~AttemptSucceeds(fj_responses[k])) =>
              fj_result = "RuntimeError"

(***************************************************************************)
(* Properties of the product name filter.                                  *)
(***************************************************************************)
\* C22: with PRODUCT_NAME_FILTERS the empty string filter_available_products
\* returns exactly the products whose inStock is True, in input order; with
\* keywords configured it returns exactly the in-stock products whose name
\* contains at least one keyword, case-insensitively.
C22_FilterDisabledKeepsInStock ==
    fl_last.called =>
        /\ fl_last.value = "" =>
              fl_last.returned = SelectSeq(fl_last.products, LAMBDA p : p.inStock)
        /\ fl_last.value \in {"TCG,Trading", "tcg"} =>
              fl_last.returned =
                 SelectSeq(fl_last.products, LAMBDA p :
                    /\ p.inStock
                    /\ \E kw \in (IF fl_last.value = "tcg" THEN {"tcg"} ELSE {"tcg", "trading"}) :
                          Contains(lower(p.name), kw))

\* the keyword list each value of PRODUCT_NAME_FILTERS stands for
KeywordsOf(value) ==
    CASE value = "TCG,Trading"     -> <<"tcg", "trading">>
      [] value = " Pokemon , ,ETB" -> <<"pokemon", "etb">>
      [] value = "tcg"             -> <<"tcg">>
      [] OTHER                     -> <<>>

\* C30: whatever changes of PRODUCT_NAME_FILTERS and calls came before,
\* get_filter_keywords returns the keyword list parsed from the current value,
\* and the cache holds a list only together with the string it was parsed
\* from, so a cached answer equals a fresh parse.
C30_CacheMatchesEnvironment ==
    /\ kw_last.called => kw_last.returned = KeywordsOf(kw_last.value)
    /\ kw_cache # <<>> => kw_cache[2] = KeywordsOf(kw_cache[1])

\* the cache was filled from one value, the variable was changed, and the call
\* returned the keywords of the new value
C30_Witness ==
    /\ kw_last.called
    /\ kw_last.value = " Pokemon , ,ETB"
    /\ kw_last.returned = <<"pokemon", "etb">>
    /\ kw_cache[1] = kw_last.value
    /\ env_filters = [set |-> FALSE, value |-> ""]

\* C23: every driver created through get_or_create_driver is released: once
\* cleanup_driver has run after any calls of get_or_create_driver, no driver
\* that is still alive is left without a quit, and a live cached driver never
\* leaves the cache without being quit.
C23_NoDriverLeftUnquit ==
    /\ last_call.op = "cleanup" => alive \subseteq quit_called
    /\ \A d \in alive : d = global_driver \/ d \in quit_called

(***************************************************************************)
(* Properties of the validation under protection.                          *)
(***************************************************************************)
\* whether a protection vendor's signature occurs in the source or the title
ProtectionIn ==
    [id \in DOMAIN LowerSource |-> is_blocked_by_protection(Shown(id).source, Shown(id).title)[1]]

\* C24: validate_page_loaded attempts CAPTCHA handling only when a reCAPTCHA
\* challenge is detected, and the page is then healthy only if the handling
\* succeeded, completion was observed and the page read again passes the
\* remaining checks; a page carrying the signature of any other protection
\* vendor is treated as blocked and reported unhealthy.
C24_OtherVendorsBlocked ==
    val_result # "not run" =>
        /\ (val_recaptcha # "none" /\ val_result = "True") =>
              /\ val_recaptcha = "solved"
              /\ ~CriticalIn[val_page] /\ ~AmbiguousIn[val_page] /\ IndicatorIn[val_page]
        /\ (val_recaptcha = "none" /\ ProtectionIn[val_page]) => val_result = "False"

(***************************************************************************)
(* Properties of the generic-container tier.                               *)
(***************************************************************************)
\* how many elements the page holds for each selector
MatchCount ==
    [k \in 1..Len(generic_selectors) |->
        Len(find_elements(generic_selectors[k], gc_li, gc_div, gc_pattern))]

\* C25: the generic-container tier considers the elements matched by a
\* structural selector whenever at least 5 elements match it.
C25_FiveAreEnough ==
    gc_done => \A k \in 1..Len(generic_selectors) : (k \in gc_sampled <=> MatchCount[k] >= 5)

\* C25 as amended: a selector's matches are considered exactly when more than
\* 5 elements match it: 6 are enough, 5 are not.
C25_SixAreEnough ==
    gc_done =>
        /\ \A k \in 1..Len(generic_selectors) : (k \in gc_sampled <=> MatchCount[k] >= 6)
        /\ \A i \in 1..Len(gc_result) :
              \/ gc_result[i].tag = "li" /\ gc_li >= 6
              \/ gc_result[i].tag = "div" /\ gc_div >= 6

\* six product cards in a list were returned while five nested divs were left out
C25_Witness ==
    /\ gc_done
    /\ gc_li = 6 /\ gc_div = 5
    /\ gc_pattern = <<"product_card">>
    /\ Len(gc_result) = 6
    /\ \A i \in 1..Len(gc_result) : gc_result[i].tag = "li"

\* the features of each kind of element, read off its markup: content is
\* whether it holds a link, an image or more than 5 characters of text
FeaturesOf(kind) ==
    CASE kind = "product_card" ->
            [content |-> TRUE, readable |-> TRUE, image |-> TRUE, images |-> TRUE, link |-> TRUE,
             product_link |-> TRUE, early_product_link |-> TRUE, price |-> TRUE, noun |-> TRUE,
             verb |-> TRUE, attrs |-> TRUE, large |-> TRUE, small |-> FALSE]
      [] kind = "nav_item" ->
            [content |-> TRUE, readable |-> TRUE, image |-> FALSE, images |-> FALSE, link |-> TRUE,
             product_link |-> FALSE, early_product_link |-> FALSE, price |-> FALSE, noun |-> FALSE,
             verb |-> FALSE, attrs |-> FALSE, large |-> FALSE, small |-> TRUE]
      [] kind = "price_chip" ->
            [content |-> FALSE, readable |-> TRUE, image |-> FALSE, images |-> FALSE, link |-> FALSE,
             product_link |-> FALSE, early_product_link |-> FALSE, price |-> TRUE, noun |-> FALSE,
             verb |-> FALSE, attrs |-> TRUE, large |-> TRUE, small |-> FALSE]
      [] kind = "late_link" ->
            [content |-> TRUE, readable |-> TRUE, image |-> TRUE, images |-> FALSE, link |-> TRUE,
             product_link |-> TRUE, early_product_link |-> FALSE, price |-> FALSE, noun |-> FALSE,
             verb |-> FALSE, attrs |-> FALSE, large |-> FALSE, small |-> FALSE]
      [] kind = "text_block" ->
            [content |-> TRUE, readable |-> TRUE, image |-> FALSE, images |-> FALSE, link |-> FALSE,
             product_link |-> FALSE, early_product_link |-> FALSE, price |-> FALSE, noun |-> TRUE,
             verb |-> FALSE, attrs |-> FALSE, large |-> FALSE, small |-> TRUE]
      [] kind = "detached" ->
            [content |-> TRUE, readable |-> FALSE, image |-> TRUE, images |-> FALSE, link |-> TRUE,
             product_link |-> TRUE, early_product_link |-> TRUE, price |-> TRUE, noun |-> TRUE,
             verb |-> FALSE, attrs |-> TRUE, large |-> TRUE, small |-> FALSE]

Weight(flag, w) == IF flag THEN w ELSE 0

\* the sum of the weights of the scoring rule, never below 0
FeatureSum(kind, product_link) ==
    LET f == FeaturesOf(kind)
        total == Weight(f.image, 2) + Weight(f.images, 1) + Weight(f.link, 1)
                 + Weight(product_link, 2) + Weight(f.price, 3) + Weight(f.noun, 2)
                 + Weight(f.verb, 1) + Weight(f.attrs, 3) + Weight(f.large, 1)
                 - Weight(f.small, 2)
    IN  IF total > 0 THEN total ELSE 0

\* the elements that entered all_candidates
Candidates == all_candidates_upto(Len(generic_selectors), gc_li, gc_div, gc_pattern)

\* the returned elements all score above 0, stand in descending score order,
\* are at most 20, and no candidate scoring above 0 is left out while there
\* is room or for a lower-scoring one
ReturnedTopScored(score) ==
    LET positive == SelectSeq(Candidates, LAMBDA e : score[e.kind] > 0)
    IN  /\ \A i \in 1..Len(gc_result) : score[gc_result[i].kind] > 0
        /\ \A i \in 1..Len(gc_result) : \A j \in i..Len(gc_result) :
              score[gc_result[i].kind] >= score[gc_result[j].kind]
        /\ Len(gc_result) = (IF Len(positive) < 20 THEN Len(positive) ELSE 20)
        /\ \A k \in GenericKinds :
              Cardinality({i \in 1..Len(gc_result) : gc_result[i].kind = k})
                <= Cardinality({i \in 1..Len(positive) : positive[i].kind = k})
        /\ \A i \in 1..Len(positive) :
              \/ \E j \in 1..Len(gc_result) : gc_result[j] = positive[i]
              \/ /\ Len(gc_result) = 20
                 /\ score[positive[i].kind] <= score[gc_result[20].kind]

\* C26: for every element _score_element_as_product returns the sum of the
\* feature weights of the scoring rule, never below 0 and never above 16, and
\* _find_generic_containers discards the elements scoring 0 and returns the
\* others in descending score order, at most 20 of them.
C26_ScoreIsFeatureSum ==
    LET claimed == [k \in GenericKinds |-> FeatureSum(k, FeaturesOf(k).product_link)]
    IN  gc_done =>
            /\ \A k \in Range(gc_pattern) :
                  ScoreOf[k] = claimed[k] /\ ScoreOf[k] >= 0 /\ ScoreOf[k] <= 16
            /\ ReturnedTopScored(claimed)

\* C26 as amended: an element that has content (a link, an image or more than
\* 5 characters of text) and can be read scores the sum of the feature
\* weights, the product-link weight counted only for one of its first three
\* links, never below 0 and never above 16; any other element scores 0; the
\* elements scoring 0 are discarded and the others returned in descending
\* score order, at most 20 of them.
C26_ScoreOfContentElements ==
    LET amended ==
            [k \in GenericKinds |->
                IF FeaturesOf(k).content /\ FeaturesOf(k).readable
                THEN FeatureSum(k, FeaturesOf(k).early_product_link) ELSE 0]
    IN  gc_done =>
            /\ \A k \in Range(gc_pattern) :
                  ScoreOf[k] = amended[k] /\ ScoreOf[k] >= 0 /\ ScoreOf[k] <= 16
            /\ ReturnedTopScored(amended)

\* twenty of twenty-one scored elements were returned, the product cards
\* (score 16) ahead of the elements whose product link is their fourth link
C26_Witness ==
    /\ gc_done
    /\ gc_pattern = <<"product_card", "product_card", "late_link">>
    /\ Len(Candidates) = 21
    /\ Len(gc_result) = 20
    /\ gc_result[1].kind = "product_card" /\ ScoreOf["product_card"] = 16
    /\ gc_result[20].kind = "late_link" /\ ScoreOf["late_link"] = 3

C28_PurchasesWhileLive ==
    \A i \in 1..Len(mn_ops) : mn_ops[i].session = "live"

(***************************************************************************)
(* Properties of automate_purchases.                                       *)
(***************************************************************************)
\* the name automate_purchases reports for the product at position i
ReportedName(i) ==
    IF ap_products[i].has_name THEN ap_products[i].name ELSE "Unknown Product"

\* C29: between products and at the return of automate_purchases for a
\* non-empty list with a driver, successful + failed is the number of products
\* handled so far, attempted the number of those with a URL, and details
\* holds one entry per handled product in input order; at the return every
\* product is handled, so successful + failed = total_products.
C29_CountersConsistent ==
    ap_pc \in {"loop", "returned"} =>
        LET handled == ap_idx - 1
        IN  /\ ap_results.successful + ap_results.failed = handled
            /\ ap_results.attempted = Cardinality({i \in 1..handled : ap_products[i].url # ""})
            /\ Len(ap_results.details) = handled
            /\ \A i \in 1..handled : ap_results.details[i].product = ReportedName(i)
            /\ ap_results.total_products = Len(ap_products)
            /\ ap_pc = "returned" => handled = ap_results.total_products

\* a call returned after one purchase, one failed attempt and one product
\* skipped for want of a URL
C29_Witness ==
    /\ ap_pc = "returned"
    /\ Len(ap_products) = 3
    /\ ap_results.successful = 1 /\ ap_results.failed = 2 /\ ap_results.attempted = 2
    /\ \E i \in 1..3 : ap_products[i].url = ""
    /\ Len(ap_results.details) = 3

====
